---- MODULE Spec2Model ----
(***************************************************************************)
(* Watermark timeline detection and removal planning of the video tool:    *)
(* logo_detector.py (region proposer, detection merger, timeline builder)  *)
(* and video_operations.py (timeline selector, coordinate clamping).       *)
(*                                                                         *)
(* Units: confidences are integers in hundredths (0.5 is 50), timestamps   *)
(* are integers in half seconds (5.0 s is 10), coordinates are pixels.     *)
(***************************************************************************)
EXTENDS Integers, Sequences, FiniteSets, TLC

VARIABLES
    vcIn,       \* arguments of one _validate_coordinates call, or NoValue
    vcOut,      \* the tuple it returned, or NoValue
    mList,      \* the detections of one frame, in arrival order
    mOnce,      \* merge_overlapping_detections(mList), or NoValue
    mTwice,     \* merge_overlapping_detections of mOnce, or NoValue
    mCluster,   \* _merge_multiple_detections(mList), or NoValue
    tDetections, \* the detections handed to _create_watermark_timelines
    tCandidates, \* its filtered_detections after the cut to 20, or NoValue
    tTimelines, \* the timelines it returned, or NoValue
    sTimelines, \* the timelines handed to _remove_timeline_watermarks
    sResult,    \* the timeline it acted on and the worker it started, or NoValue
    aPc,        \* where _remove_logo_automatic is: "idle", "sampling", "done"
    aTimestamps, \* the timestamps detect_logos_with_timeline samples
    aIndex,     \* how many of them the loop has gone through
    aFrames,    \* what extract_frame returned for each: NoValue for None
    aAll,       \* all_detections
    aTimelines, \* the timelines the builder returned, or NoValue
    aError,     \* the message given to show_error, or NoValue
    aWorker,    \* the worker started, or NoValue
    pFrame,     \* the (height, width) of the frame given to the proposer
    pContent,   \* what that frame shows
    pEntry,     \* the entry point of the proposer that was called
    pReturned,  \* the detections it returned, or NoValue
    wIn,        \* the arguments and probe result of remove_logo_worker
    wOut,       \* what it ran and emitted, or NoValue
    dDetections, \* the detections of one text group, in arrival order
    dPlan,      \* a create_dynamic_removal_command call and its list, or NoValue
    dExpanded,  \* a fallback call and the worker it started, or NoValue
    lTimelines, \* the timelines given to LamaCleaner.process_video_frames
    lFrame      \* the frame its loop handled last, or NoValue

vcVars == <<vcIn, vcOut>>
mVars == <<mList, mOnce, mTwice, mCluster>>
tVars == <<tDetections, tCandidates, tTimelines>>
sVars == <<sTimelines, sResult>>
aVars == <<aPc, aTimestamps, aIndex, aFrames, aAll, aTimelines, aError, aWorker>>
pVars == <<pFrame, pContent, pEntry, pReturned>>
wVars == <<wIn, wOut>>
dVars == <<dDetections, dPlan, dExpanded>>
lVars == <<lTimelines, lFrame>>
vars == <<vcVars, mVars, tVars, sVars, aVars, pVars, wVars, dVars, lVars>>

\* what the actions of one component leave alone
vcOthers == <<mVars, tVars, sVars, aVars, pVars, wVars, dVars, lVars>>
mOthers == <<vcVars, tVars, sVars, aVars, pVars, wVars, dVars, lVars>>
tOthers == <<vcVars, mVars, sVars, aVars, pVars, wVars, dVars, lVars>>
sOthers == <<vcVars, mVars, tVars, aVars, pVars, wVars, dVars, lVars>>
aOthers == <<vcVars, mVars, tVars, sVars, pVars, wVars, dVars, lVars>>
pOthers == <<vcVars, mVars, tVars, sVars, aVars, wVars, dVars, lVars>>
wOthers == <<vcVars, mVars, tVars, sVars, aVars, pVars, dVars, lVars>>
dOthers == <<vcVars, mVars, tVars, sVars, aVars, pVars, wVars, lVars>>
lOthers == <<vcVars, mVars, tVars, sVars, aVars, pVars, wVars, dVars>>

\* An optional value is the empty tuple or a one-element tuple.
NoValue == <<>>
Some(v) == <<v>>
The(opt) == opt[1]

\* ------------------------------------------------------------------ helpers
Max2(a, b) == IF a >= b THEN a ELSE b
Min2(a, b) == IF a <= b THEN a ELSE b
Abs(a) == IF a >= 0 THEN a ELSE -a

SetMax(S) == CHOOSE m \in S : \A n \in S : n <= m
SetMin(S) == CHOOSE m \in S : \A n \in S : m <= n
Range(s) == {s[i] : i \in 1 .. Len(s)}

\* list.sort(key=Key, reverse=True): Python's sort is stable, also when
\* reversed, so equal keys keep their arrival order.
InsertDesc(sorted, e, Key(_)) ==
    LET k == Cardinality({i \in 1 .. Len(sorted) : Key(sorted[i]) >= Key(e)})
    IN  SubSeq(sorted, 1, k) \o <<e>> \o SubSeq(sorted, k + 1, Len(sorted))

SortDescBy(s, Key(_)) ==
    LET f[n \in 0 .. Len(s)] ==
            IF n = 0 THEN <<>> ELSE InsertDesc(f[n - 1], s[n], Key)
    IN  f[Len(s)]

\* ------------------------------------------------- coordinate clamping
\* Bounds of the clamping specification.
MaxCoord == 6
MinDim == 4
MaxDim == 6

\* VideoOperations._validate_coordinates (LogoDetector._validate_coordinates
\* is the same text).
ValidateCoordinates(x, y, w, h, video_width, video_height) ==
    LET x1 == Max2(0, Min2(x, video_width - 1))
        y1 == Max2(0, Min2(y, video_height - 1))
        max_w == video_width - x1
        max_h == video_height - y1
        w1 == Min2(w, max_w - 1)
        h1 == Min2(h, max_h - 1)
    IN  [x |-> x1, y |-> y1, w |-> Max2(w1, 2), h |-> Max2(h1, 2)]

VcInputs ==
    [x : -1 .. MaxCoord, y : -1 .. MaxCoord, w : -1 .. MaxCoord, h : {1, MaxCoord},
     W : MinDim .. MaxDim, H : {MinDim, MaxDim}]

VcIdle == vcIn = NoValue /\ vcOut = NoValue

VcCall ==
    /\ vcIn = NoValue
    /\ \E a \in VcInputs :
          /\ vcIn' = Some(a)
          /\ vcOut' = Some(ValidateCoordinates(a.x, a.y, a.w, a.h, a.W, a.H))
    /\ UNCHANGED vcOthers

VcReturn ==
    /\ vcIn # NoValue
    /\ vcIn' = NoValue
    /\ vcOut' = NoValue
    /\ UNCHANGED vcOthers

\* ------------------------------------------------------ detection merger
\* Texts are sequences of one-character strings.
Upper == <<"A", "B", "C", "D", "E", "F", "G", "H", "I", "J", "K", "L", "M",
           "N", "O", "P", "Q", "R", "S", "T", "U", "V", "W", "X", "Y", "Z">>
Lower == <<"a", "b", "c", "d", "e", "f", "g", "h", "i", "j", "k", "l", "m",
           "n", "o", "p", "q", "r", "s", "t", "u", "v", "w", "x", "y", "z">>

\* str.lower(), one character
LowerChar(c) ==
    IF \E i \in 1 .. Len(Upper) : Upper[i] = c
    THEN Lower[CHOOSE i \in 1 .. Len(Upper) : Upper[i] = c]
    ELSE c

\* str.lower()
ToLower(s) == [i \in 1 .. Len(s) |-> LowerChar(s[i])]

\* str.strip(): leading and trailing blanks removed
Strip(s) ==
    LET keep == {i \in 1 .. Len(s) : s[i] # " "}
    IN  IF keep = {} THEN <<>> ELSE SubSeq(s, SetMin(keep), SetMax(keep))

\* sub in s
Contains(sub, s) ==
    \E i \in 0 .. Len(s) - Len(sub) : SubSeq(s, i + 1, i + Len(sub)) = sub

\* str.replace(c, ''), for a one-character c
RemoveChar(s, c) ==
    LET f[n \in 0 .. Len(s)] ==
            IF n = 0 THEN <<>>
            ELSE IF s[n] = c THEN f[n - 1] ELSE Append(f[n - 1], s[n])
    IN  f[Len(s)]

\* ' '.join(texts)
JoinBlank(texts) ==
    LET f[n \in 0 .. Len(texts)] ==
            IF n = 0 THEN <<>>
            ELSE IF n = 1 THEN texts[1]
            ELSE f[n - 1] \o <<" ">> \o texts[n]
    IN  f[Len(texts)]

\* type.startswith('text'), over the type tags the detector writes
TypeTags == {"ocr_tesseract", "ocr_full_region", "text_selective", "merged_watermark"}
StartsWithText(type) == type = "text_selective"

ConfidenceOf(d) == d.confidence

\* LogoDetector._calculate_overlap, compared with the threshold t_pct / 100:
\* intersection / union > t
OverlapAbove(box1, box2, t_pct) ==
    LET left == Max2(box1.x, box2.x)
        top == Max2(box1.y, box2.y)
        right == Min2(box1.x + box1.width, box2.x + box2.width)
        bottom == Min2(box1.y + box1.height, box2.y + box2.height)
        intersection == (right - left) * (bottom - top)
        union == box1.width * box1.height + box2.width * box2.height - intersection
    IN  IF left >= right \/ top >= bottom
        THEN 0 > t_pct
        ELSE IF union > 0 THEN intersection * 100 > t_pct * union ELSE 0 > t_pct

\* LogoDetector._calculate_distance, compared with a limit: the centres are
\* x + width / 2, so the squared distance is taken on doubled coordinates.
DistanceBelow(box1, box2, limit) ==
    LET dx == (2 * box1.x + box1.width) - (2 * box2.x + box2.width)
        dy == (2 * box1.y + box1.height) - (2 * box2.y + box2.height)
    IN  dx * dx + dy * dy < 4 * limit * limit

\* the should_merge decision of merge_overlapping_detections
ShouldMerge(detection, other, t_pct) ==
    \/ OverlapAbove(detection, other, t_pct)
    \/ /\ DistanceBelow(detection, other, 30)
       /\ StartsWithText(detection.type)
       /\ StartsWithText(other.type)
       /\ Abs(detection.y - other.y) < 20

\* the padding given to a detection that absorbed nothing
PadSingle(detection) ==
    LET padding == Min2(8, Min2(detection.width \div 8, detection.height \div 4))
    IN  [detection EXCEPT !.x = Max2(0, detection.x - padding),
                          !.y = Max2(0, detection.y - padding),
                          !.width = detection.width + 2 * padding,
                          !.height = detection.height + 2 * padding]

\* the unique, stripped, non-empty texts of a cluster in order
UniqueTexts(detections) ==
    LET f[n \in 0 .. Len(detections)] ==
            IF n = 0 THEN <<>>
            ELSE LET clean_text == Strip(detections[n].text)
                 IN  IF clean_text # <<>> /\ clean_text \notin Range(f[n - 1])
                     THEN Append(f[n - 1], clean_text)
                     ELSE f[n - 1]
    IN  f[Len(detections)]

MergeMultipleKeepLeftEdge(detections) ==
    LET min_x == SetMin({d.x : d \in Range(detections)})
        min_y == SetMin({d.y : d \in Range(detections)})
        max_x == SetMax({d.x + d.width : d \in Range(detections)})
        max_y == SetMax({d.y + d.height : d \in Range(detections)})
        span_x == max_x - min_x
        span_y == max_y - min_y
        padding_x == Min2(15, Max2(5, span_x \div 20))
        padding_y == Min2(10, Max2(3, span_y \div 20))
        final_x == Max2(0, min_x - padding_x)
        final_y == Max2(0, min_y - padding_y)
        final_width == span_x + 2 * padding_x
        final_height == span_y + 2 * padding_y
        unique_texts == UniqueTexts(detections)
    IN  [x |-> final_x,
         y |-> final_y,
         width |-> Min2(final_width, 300),
         height |-> Min2(final_height, 100),
         confidence |-> SetMax({d.confidence : d \in Range(detections)}),
         type |-> "merged_watermark",
         text |-> JoinBlank(SubSeq(unique_texts, 1, Min2(3, Len(unique_texts)))),
         is_watermark |-> \E d \in Range(detections) : d.is_watermark,
         merged_count |-> Len(detections)]

\* LogoDetector._merge_multiple_detections
MergeMultipleDetections(detections) ==
    IF Len(detections) = 1 THEN PadSingle(detections[1])
    ELSE
    LET min_x == SetMin({d.x : d \in Range(detections)})
        min_y == SetMin({d.y : d \in Range(detections)})
        max_x == SetMax({d.x + d.width : d \in Range(detections)})
        max_y == SetMax({d.y + d.height : d \in Range(detections)})
        span_x == max_x - min_x
        span_y == max_y - min_y
        padding_x == Min2(15, Max2(5, span_x \div 20))
        padding_y == Min2(10, Max2(3, span_y \div 20))
        final_x == Max2(0, min_x - padding_x)
        final_y == Max2(0, min_y - padding_y)
        final_width == span_x + 2 * padding_x
        final_height == span_y + 2 * padding_y
        max_width == 300
        max_height == 100
        center_x == final_x + final_width \div 2
        center_y == final_y + final_height \div 2
        unique_texts == UniqueTexts(detections)
    IN  [x |-> IF final_width > max_width
               THEN Max2(0, center_x - max_width \div 2) ELSE final_x,
         y |-> IF final_height > max_height
               THEN Max2(0, center_y - max_height \div 2) ELSE final_y,
         width |-> IF final_width > max_width THEN max_width ELSE final_width,
         height |-> IF final_height > max_height THEN max_height ELSE final_height,
         confidence |-> SetMax({d.confidence : d \in Range(detections)}),
         type |-> "merged_watermark",
         text |-> JoinBlank(SubSeq(unique_texts, 1, Min2(3, Len(unique_texts)))),
         is_watermark |-> \E d \in Range(detections) : d.is_watermark,
         merged_count |-> Len(detections)]

\* the used set with the absorbed detections left out
UsedAfterSeedOnly(used, absorbed, i) == used \cup {i}

\* used.add(j) for every absorbed detection, then used.add(i)
UsedAfter(used, absorbed, i) == used \cup absorbed \cup {i}

\* The loop of merge_overlapping_detections. Its state after the first n
\* sorted detections is [merged, used, clusters]; each unused detection
\* seeds a cluster of the later unused detections that should merge with
\* it. clusters keeps nearby_detections of each pass as indices into the
\* sorted list, the seed first.
MergeLoop(detections, t_pct) ==
    LET sorted == SortDescBy(detections, ConfidenceOf)
        n == Len(sorted)
        loop[i \in 0 .. n] ==
            IF i = 0 THEN [merged |-> <<>>, used |-> {}, clusters |-> <<>>]
            ELSE LET prev == loop[i - 1]
                 IN  IF i \in prev.used THEN prev
                     ELSE LET absorbed ==
                                  {j \in (i + 1) .. n :
                                      /\ j \notin prev.used
                                      /\ ShouldMerge(sorted[i], sorted[j], t_pct)}
                              idx == <<i>> \o
                                  [k \in 1 .. Cardinality(absorbed) |->
                                      CHOOSE j \in absorbed :
                                          Cardinality({m \in absorbed : m < j}) = k - 1]
                              nearby_detections == [k \in 1 .. Len(idx) |-> sorted[idx[k]]]
                              merged_detection ==
                                  IF Len(nearby_detections) > 1
                                  THEN MergeMultipleDetections(nearby_detections)
                                  ELSE PadSingle(sorted[i])
                          IN  [merged |-> Append(prev.merged, merged_detection),
                               used |-> UsedAfter(prev.used, absorbed, i),
                               clusters |-> Append(prev.clusters, idx)]
    IN  loop[n]

\* LogoDetector.merge_overlapping_detections
MergeOverlappingDetections(detections, t_pct) == MergeLoop(detections, t_pct).merged

\* Bounds of the merger specification.
MaxFrameDetections == 3

MergePool ==
    { [x |-> 100, y |-> 100, width |-> 80, height |-> 40, confidence |-> 80,
       type |-> "ocr_tesseract", text |-> <<"a", "b">>, is_watermark |-> FALSE,
       merged_count |-> 0],
      [x |-> 110, y |-> 105, width |-> 80, height |-> 40, confidence |-> 70,
       type |-> "ocr_tesseract", text |-> <<"a", "b", "c">>, is_watermark |-> TRUE,
       merged_count |-> 0],
      [x |-> 0, y |-> 2, width |-> 20, height |-> 12, confidence |-> 70,
       type |-> "text_selective", text |-> <<>>, is_watermark |-> FALSE,
       merged_count |-> 0],
      [x |-> 24, y |-> 6, width |-> 21, height |-> 12, confidence |-> 50,
       type |-> "text_selective", text |-> <<" ", "H", "D", " ">>, is_watermark |-> TRUE,
       merged_count |-> 0],
      [x |-> 50, y |-> 50, width |-> 400, height |-> 30, confidence |-> 60,
       type |-> "ocr_tesseract", text |-> <<"a", "b">>, is_watermark |-> FALSE,
       merged_count |-> 0],
      [x |-> 61, y |-> 55, width |-> 380, height |-> 30, confidence |-> 60,
       type |-> "ocr_tesseract", text |-> <<"x">>, is_watermark |-> FALSE,
       merged_count |-> 0],
      [x |-> 10, y |-> 10, width |-> 50, height |-> 150, confidence |-> 90,
       type |-> "ocr_tesseract", text |-> <<"y">>, is_watermark |-> FALSE,
       merged_count |-> 0],
      [x |-> 12, y |-> 13, width |-> 50, height |-> 150, confidence |-> 55,
       type |-> "ocr_tesseract", text |-> <<"z">>, is_watermark |-> FALSE,
       merged_count |-> 0] }

\* The default overlap_threshold, 0.3, in hundredths.
OverlapThresholdPct == 30

MIdle == mList = <<>> /\ mOnce = NoValue /\ mTwice = NoValue /\ mCluster = NoValue

\* one more detection of the frame arrives
MAdd ==
    /\ mOnce = NoValue /\ mCluster = NoValue
    /\ Len(mList) < MaxFrameDetections
    /\ \E d \in MergePool : mList' = Append(mList, d)
    /\ UNCHANGED <<mOnce, mTwice, mCluster, mOthers>>

\* merge_overlapping_detections(detections)
MMerge ==
    /\ mOnce = NoValue /\ mCluster = NoValue
    /\ mOnce' = Some(MergeOverlappingDetections(mList, OverlapThresholdPct))
    /\ UNCHANGED <<mList, mTwice, mCluster, mOthers>>

\* the merged list merged again with the same threshold
MMergeAgain ==
    /\ mOnce # NoValue /\ mTwice = NoValue
    /\ mTwice' = Some(MergeOverlappingDetections(The(mOnce), OverlapThresholdPct))
    /\ UNCHANGED <<mList, mOnce, mCluster, mOthers>>

\* _merge_multiple_detections(detections) on a cluster of two or more
MMergeCluster ==
    /\ mOnce = NoValue /\ mCluster = NoValue
    /\ Len(mList) >= 2
    /\ mCluster' = Some(MergeMultipleDetections(mList))
    /\ UNCHANGED <<mList, mOnce, mTwice, mOthers>>

\* ------------------------------------------------------- timeline builder
\* list.sort(key=Key): ascending and stable
InsertAsc(sorted, e, Key(_)) ==
    LET k == Cardinality({i \in 1 .. Len(sorted) : Key(sorted[i]) <= Key(e)})
    IN  SubSeq(sorted, 1, k) \o <<e>> \o SubSeq(sorted, k + 1, Len(sorted))

SortAscBy(s, Key(_)) ==
    LET f[n \in 0 .. Len(s)] ==
            IF n = 0 THEN <<>> ELSE InsertAsc(f[n - 1], s[n], Key)
    IN  f[Len(s)]

SeqSum(s) ==
    LET f[n \in 0 .. Len(s)] == IF n = 0 THEN 0 ELSE f[n - 1] + s[n]
    IN  f[Len(s)]

\* any(pattern in text for pattern in patterns)
AnyIn(patterns, text) == \E p \in patterns : Contains(p, text)

\* the characters of a text, set(text)
CharSet(text) == Range(text)

\* moving_parts of _texts_are_similar
MovingParts ==
    { <<"m", "o", "v", "i", "n", "g">>, <<"m", "o", "v">>,
      <<"v", "i", "n", "g">>, <<"o", "v", "i", "n", "g">>, <<"o", "v">>,
      <<"v", "i">>, <<"n", "g">>, <<"g">>, <<"v">> }

\* watermark_parts of _texts_are_similar
WatermarkParts ==
    { <<"w", "a", "t", "e", "r", "m", "a", "r", "k">>,
      <<"w", "a", "t", "e", "r">>, <<"m", "a", "r", "k">>,
      <<"a", "t", "e", "r">>, <<"t", "e", "r">>, <<"r", "m", "a", "r", "k">>,
      <<"e", "m", "a", "r", "k">>, <<"a", "r", "k">>, <<"a", "t", "e">> }

\* watermark_fragments of _texts_are_similar; the non-ASCII characters are
\* written as the tokens "(c)", "(r)", "(tm)", "alef" and "reh"
WatermarkFragments ==
    { <<"m", "o", "v", "i", "n", "g">>, <<"m", "o", "v">>,
      <<"v", "i", "n", "g">>, <<"o", "v", "i", "n", "g">>, <<"o", "v">>,
      <<"v", "i">>, <<"n", "g">>, <<"i", "n">>, <<"g">>,
      <<"w", "a", "t", "e", "r", "m", "a", "r", "k">>,
      <<"w", "a", "t", "e", "r">>, <<"m", "a", "r", "k">>,
      <<"a", "t", "e", "r">>, <<"t", "e", "r">>, <<"w", "a", "t">>,
      <<"a", "t", "e">>, <<"m", "a">>, <<"a", "r">>, <<"r", "k">>,
      <<"e", "m", "a", "r", "k">>, <<"r", "m", "a", "r", "k">>,
      <<"w", "a", "t", "e">>, <<"t", "e", "r", "m", "a">>,
      <<"e", "r", "m", "a", "r">>, <<"r", "m", "alef", "reh">>,
      <<"g", " ", "w", "a", "t", "e", "r">>,
      <<"n", "i", "c", " ", "w", "a", "t", "e", "r">>,
      <<"l", "o", "g", "o">>, <<"b", "r", "a", "n", "d">>,
      <<"c", "o", "p", "y", "r", "i", "g", "h", "t">>, <<"(c)">>, <<"(r)">>,
      <<"(tm)">>, <<"c", "o", "p", "y">>, <<"r", "i", "g", "h", "t">>,
      <<"i", "g", "h", "t">>, <<"w", "a", "t", "e", "r", "m", "a", "r">>,
      <<"w", "a", "t", "e", "r", "m">>, <<"a", "t", "e", "r", "m">>,
      <<"r", "m", "a", "r">>, <<"m", "a", "r">>, <<"a", "r", "k">>,
      <<"w", "a", "t", "e", "r", "k", "a", "a", "r">>,
      <<"t", "e", "p", "k", "a", "a", "r", "k", "o">>,
      <<"k", "a", "a", "r">>, <<"t", "e", "p", "k", "a">>,
      <<"k", "a", "a", "r", "k", "o">> }

\* the timestamp and frame-counter patterns of the noise filter
NoisePatterns ==
    { <<"0", "0", ":">>, <<"f", "p", "s">>, <<"f", "r", "a", "m", "e">>,
      <<"s", "e", "c">> }

\* the indicator list of is_likely_watermark
LikelyIndicators ==
    { <<"w", "w", "w">>, <<".", "c", "o", "m">>, <<"(c)">>, <<"(r)">>,
      <<"(tm)">>, <<"w", "a", "t", "e", "r", "m", "a", "r", "k">>,
      <<"m", "o", "v", "i", "n", "g">>, <<"m", "a", "r", "k">>,
      <<"w", "a", "t", "e", "r">>, <<"m", "o", "v">>, <<"v", "i", "n", "g">>,
      <<"a", "t", "e", "r">>, <<"e", "m", "a", "r", "k">> }

\* the indicator list that lifts the time limit on long texts
GroupIndicators ==
    { <<"w", "a", "t", "e", "r", "m", "a", "r", "k">>,
      <<"m", "o", "v", "i", "n", "g">>, <<"m", "a", "r", "k">>,
      <<"w", "a", "t", "e", "r">>, <<"m", "o", "v">>, <<"v", "i", "n", "g">>,
      <<"a", "t", "e", "r">>, <<"e", "m", "a", "r", "k">> }

CombinedTarget == <<"m", "o", "v", "i", "n", "g", "w", "a", "t", "e", "r", "m", "a", "r", "k">>
NormalizedTarget == <<"m", "o", "v", "i", "n", "g", " ", "w", "a", "t", "e", "r", "m", "a", "r", "k">>

\* LogoDetector._texts_are_similar
TextsAreSimilar(text1_raw, text2_raw) ==
    IF text1_raw = <<>> \/ text2_raw = <<>> THEN FALSE
    ELSE
    LET text1 == Strip(ToLower(text1_raw))
        text2 == Strip(ToLower(text2_raw))
        shorter == IF Len(text1) < Len(text2) THEN text1 ELSE text2
        longer == IF Len(text1) < Len(text2) THEN text2 ELSE text1
        text1_norm == RemoveChar(RemoveChar(RemoveChar(text1, " "), "-"), "_")
        text2_norm == RemoveChar(RemoveChar(RemoveChar(text2, " "), "-"), "_")
        text1_is_moving == AnyIn(MovingParts, text1_norm)
        text1_is_watermark == AnyIn(WatermarkParts, text1_norm)
        text2_is_moving == AnyIn(MovingParts, text2_norm)
        text2_is_watermark == AnyIn(WatermarkParts, text2_norm)
        text1_fragments == {frag \in WatermarkFragments : Contains(frag, text1_norm)}
        text2_fragments == {frag \in WatermarkFragments : Contains(frag, text2_norm)}
        common_chars == CharSet(text1) \cap CharSet(text2)
        min_len == Min2(Len(text1), Len(text2))
    IN  \/ text1 = text2
        \/ Len(shorter) >= 1 /\ Contains(shorter, longer)
        \/ (text1_is_moving /\ text2_is_watermark) \/ (text1_is_watermark /\ text2_is_moving)
        \/ text1_fragments \cap text2_fragments # {}
        \/ /\ Len(text1) >= 2 /\ Len(text2) >= 2
           /\ Contains(text1_norm, CombinedTarget) \/ Contains(text1_norm, NormalizedTarget)
           /\ Contains(text2_norm, CombinedTarget) \/ Contains(text2_norm, NormalizedTarget)
        \/ /\ Len(text1) >= 3 /\ Len(text2) >= 3
           /\ \/ 10 * Cardinality(common_chars) >= 6 * min_len
              \/ /\ Len(text1) >= 4 /\ Len(text2) >= 4
                 /\ \E i \in 1 .. Len(text1) - 2 : \E j \in 1 .. Len(text2) - 2 :
                        SubSeq(text1, i, i + 2) = SubSeq(text2, j, j + 2)

\* the filter with the earlier confidence floor of 0.6
PassesNoiseFilterAbove60(detection) ==
    LET text == Strip(detection.text)
        confidence == detection.confidence
    IN  /\ ~(confidence < 60)
        /\ ~(Len(text) < 2)
        /\ ~(Len(text) = 1 /\ confidence < 70)
        /\ ~AnyIn(NoisePatterns, ToLower(text))

\* the noise filter of _create_watermark_timelines: the detection is kept
PassesNoiseFilter(detection) ==
    LET text == Strip(detection.text)
        confidence == detection.confidence
    IN  /\ ~(confidence < 50)
        /\ ~(Len(text) < 2)
        /\ ~(Len(text) = 1 /\ confidence < 70)
        /\ ~AnyIn(NoisePatterns, ToLower(text))

\* is_likely_watermark without the list of indicator texts
IsLikelyWatermarkNoIndicators(detection) ==
    LET text == Strip(detection.text)
    IN  \/ detection.is_watermark
        \/ detection.confidence > 80
        \/ (Len(text) >= 3 /\ detection.confidence > 60)

\* is_likely_watermark
IsLikelyWatermark(detection) ==
    LET text == Strip(detection.text)
    IN  \/ AnyIn(LikelyIndicators, ToLower(text))
        \/ detection.is_watermark
        \/ detection.confidence > 80
        \/ (Len(text) >= 3 /\ detection.confidence > 60)

\* watermark_score, in hundredths
WatermarkScore(detection) ==
    detection.confidence * (IF IsLikelyWatermark(detection) THEN 2 ELSE 1)

\* detection['watermark_score'] = ...: the dict gains the key
WithScore(detection) ==
    [k \in DOMAIN detection \cup {"watermark_score"} |->
        IF k = "watermark_score" THEN WatermarkScore(detection) ELSE detection[k]]

\* the detections that survive the noise filter, scored, in arrival order
FilteredDetections(detections) ==
    LET kept == SelectSeq(detections, PassesNoiseFilter)
    IN  [i \in 1 .. Len(kept) |-> WithScore(kept[i])]

StoredScoreOf(d) == d.watermark_score

TopCandidatesUnsorted(detections) ==
    LET filtered == FilteredDetections(detections)
    IN  SubSeq(filtered, 1, Min2(20, Len(filtered)))

\* filtered_detections sorted but never cut
TopCandidatesNoCut(detections) ==
    SortDescBy(FilteredDetections(detections), StoredScoreOf)

\* filtered_detections after the sort by watermark_score and the cut to 20
TopCandidates(detections) ==
    LET sorted == SortDescBy(FilteredDetections(detections), StoredScoreOf)
    IN  SubSeq(sorted, 1, Min2(20, Len(sorted)))

TimestampOf(d) == d.timestamp

\* the members of a group sampled less than `window` half seconds from t
RecentDetections(existing_detections, timestamp, window) ==
    SelectSeq(existing_detections, LAMBDA d : Abs(d.timestamp - timestamp) < window)

\* abs(x - avg_x) < dx and abs(y - avg_y) < dy, avg over the recent members
NearAverage(detection, recent, dx, dy) ==
    LET n == Len(recent)
        sum_x == SeqSum([i \in 1 .. n |-> recent[i].x])
        sum_y == SeqSum([i \in 1 .. n |-> recent[i].y])
    IN  /\ Abs(n * detection.x - sum_x) < dx * n
        /\ Abs(n * detection.y - sum_y) < dy * n

\* the texts of a detection and of a group are related: containment either
\* way on the stripped texts, or _texts_are_similar
TextsRelated(text, existing_text) ==
    /\ text # <<>> /\ existing_text # <<>>
    /\ \/ Contains(text, existing_text)
       \/ Contains(existing_text, text)
       \/ TextsAreSimilar(text, existing_text)

\* the fuzzy branch: detection joins the text group existing_text
JoinsTextGroup(detection, existing_text, existing_detections) ==
    LET text == Strip(detection.text)
    IN  /\ TextsRelated(text, existing_text)
        /\ IF Len(text) <= 2 \/ Len(existing_text) <= 2
           THEN LET recent == RecentDetections(existing_detections, detection.timestamp, 10)
                IN  recent # <<>> /\ NearAverage(detection, recent, 100, 50)
           ELSE IF detection.is_watermark \/ AnyIn(GroupIndicators, ToLower(text))
           THEN /\ Len(existing_detections) > 0
                /\ LET all_x == {d.x : d \in Range(existing_detections)} \cup {detection.x}
                       all_y == {d.y : d \in Range(existing_detections)} \cup {detection.y}
                   IN  /\ SetMax(all_x) - SetMin(all_x) < 500
                       /\ SetMax(all_y) - SetMin(all_y) < 300
           ELSE LET recent == RecentDetections(existing_detections, detection.timestamp, 6)
                IN  recent # <<>> /\ NearAverage(detection, recent, 200, 100)

\* the spatial-temporal branch: detection joins a position group
JoinsPositionGroup(detection, group) ==
    LET recent_in_group == RecentDetections(group, detection.timestamp, 6)
    IN  recent_in_group # <<>> /\ NearAverage(detection, recent_in_group, 150, 80)

\* text_groups is an insertion-ordered dict: a sequence of [key, members]
GroupKeys(text_groups) == {text_groups[i].key : i \in 1 .. Len(text_groups)}
KeyIndex(text_groups, key) ==
    CHOOSE i \in 1 .. Len(text_groups) : text_groups[i].key = key

AppendToGroup(text_groups, i, detection) ==
    [text_groups EXCEPT ![i].members = Append(@, detection)]

\* text_groups[key] = members
SetGroup(text_groups, key, members) ==
    IF key \in GroupKeys(text_groups)
    THEN [text_groups EXCEPT ![KeyIndex(text_groups, key)].members = members]
    ELSE Append(text_groups, [key |-> key, members |-> members])

\* one pass of the grouping loop for one detection
GroupOne(state, detection) ==
    LET text_groups == state.text_groups
        position_groups == state.position_groups
        text == Strip(detection.text)
        fuzzy == {i \in 1 .. Len(text_groups) :
                     JoinsTextGroup(detection, text_groups[i].key, text_groups[i].members)}
        spatial == {i \in 1 .. Len(position_groups) :
                       JoinsPositionGroup(detection, position_groups[i])}
    IN  IF text # <<>> /\ text \in GroupKeys(text_groups)
        THEN [state EXCEPT !.text_groups =
                 AppendToGroup(text_groups, KeyIndex(text_groups, text), detection)]
        ELSE IF fuzzy # {}
        THEN [state EXCEPT !.text_groups =
                 AppendToGroup(text_groups, SetMin(fuzzy), detection)]
        ELSE IF spatial # {}
        THEN [state EXCEPT !.position_groups[SetMin(spatial)] = Append(@, detection)]
        ELSE IF text # <<>>
        THEN [state EXCEPT !.text_groups =
                 Append(text_groups, [key |-> text, members |-> <<detection>>])]
        ELSE [state EXCEPT !.position_groups = Append(position_groups, <<detection>>)]

\* the grouping loop over the candidates
GroupLoop(candidates) ==
    LET f[n \in 0 .. Len(candidates)] ==
            IF n = 0 THEN [text_groups |-> <<>>, position_groups |-> <<>>]
            ELSE GroupOne(f[n - 1], candidates[n])
    IN  f[Len(candidates)]

Digits == <<"0", "1", "2", "3", "4", "5", "6", "7", "8", "9">>

\* f'moving_element_{i}', for i below 100
MovingElementName(i) ==
    <<"m", "o", "v", "i", "n", "g", "_", "e", "l", "e", "m", "e", "n", "t", "_">>
        \o (IF i >= 10 THEN <<Digits[(i \div 10) + 1]>> ELSE <<>>)
        \o <<Digits[(i % 10) + 1]>>

\* max(texts, key=len): the first longest text
FirstLongest(texts) ==
    texts[SetMin({i \in 1 .. Len(texts) :
                     \A j \in 1 .. Len(texts) : Len(texts[j]) <= Len(texts[i])})]

\* position groups of two or more members become text groups
ConvertPositionGroups(state) ==
    LET pg == state.position_groups
        f[n \in 0 .. Len(pg)] ==
            IF n = 0 THEN state.text_groups
            ELSE IF Len(pg[n]) > 1
                 THEN LET all == [k \in 1 .. Len(pg[n]) |-> pg[n][k].text]
                          texts == SelectSeq(all, LAMBDA t : Strip(t) # <<>>)
                          group_text == IF texts # <<>> THEN FirstLongest(texts)
                                        ELSE MovingElementName(n - 1)
                      IN  SetGroup(f[n - 1], group_text, pg[n])
                 ELSE f[n - 1]
    IN  f[Len(pg)]

\* the text groups at the end of grouping
TextGroups(candidates) == ConvertPositionGroups(GroupLoop(candidates))

\* a position entry of a timeline
PositionOf(d) ==
    [x |-> d.x, y |-> d.y, width |-> d.width, height |-> d.height,
     confidence |-> d.confidence]

\* np.var of a list of integers as the fraction num / den (den = n * n)
Variance(values) ==
    LET n == Len(values)
        sum == SeqSum(values)
        sum_sq == SeqSum([i \in 1 .. n |-> values[i] * values[i]])
    IN  [num |-> n * sum_sq - sum * sum, den |-> n * n]

\* variance > limit, and variance a > factor * variance b (same den)
VarianceAbove(v, limit) == v.num > limit * v.den
VarianceAboveTimes(a, b, factor) == a.num * b.den > factor * b.num * a.den

\* movement_type with any change of position taken for movement
MovementTypeAnyChange(x_variance, y_variance) ==
    IF VarianceAbove(x_variance, 0) \/ VarianceAbove(y_variance, 0)
    THEN IF VarianceAboveTimes(x_variance, y_variance, 2) THEN "horizontal"
         ELSE IF VarianceAboveTimes(y_variance, x_variance, 2) THEN "vertical"
         ELSE "complex"
    ELSE "static"

\* movement_type with the larger variance always taken as the direction
MovementTypeNoTieBreak(x_variance, y_variance) ==
    IF VarianceAbove(x_variance, 100) \/ VarianceAbove(y_variance, 100)
    THEN IF VarianceAboveTimes(x_variance, y_variance, 1) THEN "horizontal"
         ELSE "vertical"
    ELSE "static"

\* movement_type without the comparison of the two variances
MovementTypeNoDirection(x_variance, y_variance) ==
    IF VarianceAbove(x_variance, 100) \/ VarianceAbove(y_variance, 100)
    THEN "complex"
    ELSE "static"

\* movement_type
MovementType(x_variance, y_variance) ==
    IF VarianceAbove(x_variance, 100) \/ VarianceAbove(y_variance, 100)
    THEN IF VarianceAboveTimes(x_variance, y_variance, 2) THEN "horizontal"
         ELSE IF VarianceAboveTimes(y_variance, x_variance, 2) THEN "vertical"
         ELSE "complex"
    ELSE "static"

\* the builder without its checks on a group
KeepsEveryGroup(detections_list) == TRUE

\* a one-member group is dropped when its confidence is below 0.7, or
\* below 0.8 without the watermark flag
KeepsGroup(detections_list) ==
    LET n == Len(detections_list)
        conf_sum == SeqSum([i \in 1 .. n |-> detections_list[i].confidence])
    IN  /\ ~(conf_sum < 70 * n /\ n = 1)
        /\ ~(n = 1 /\ detections_list[1].confidence < 80
                   /\ ~detections_list[1].is_watermark)

\* is_moving with the straight movements left out
IsMovingTypeComplexOnly(movement_type) == movement_type = "complex"

\* is_moving of a timeline of several detections
IsMovingType(movement_type) == movement_type \in {"horizontal", "vertical", "complex"}

\* the timeline dict built for a kept group
MakeTimeline(text, detections_list) ==
    IF Len(detections_list) = 1
    THEN [text |-> text,
          type |-> "static",
          is_moving |-> FALSE,
          detections |-> detections_list,
          positions |-> [i \in 1 .. 1 |-> PositionOf(detections_list[i])],
          movement_analysis |-> [x_variance |-> [num |-> 0, den |-> 1],
                                 y_variance |-> [num |-> 0, den |-> 1]],
          confidence |-> detections_list[1].confidence,
          is_watermark |-> detections_list[1].is_watermark]
    ELSE
    LET sorted == SortAscBy(detections_list, TimestampOf)
        n == Len(sorted)
        x_coords == [i \in 1 .. n |-> sorted[i].x]
        y_coords == [i \in 1 .. n |-> sorted[i].y]
        x_variance == Variance(x_coords)
        y_variance == Variance(y_coords)
        movement_type == MovementType(x_variance, y_variance)
    IN  [text |-> text,
         type |-> movement_type,
         is_moving |-> IsMovingType(movement_type),
         detections |-> sorted,
         positions |-> [i \in 1 .. n |-> PositionOf(sorted[i])],
         movement_analysis |->
             [x_variance |-> x_variance,
              y_variance |-> y_variance,
              x_range |-> SetMax(Range(x_coords)) - SetMin(Range(x_coords)),
              y_range |-> SetMax(Range(y_coords)) - SetMin(Range(y_coords)),
              positions |-> [i \in 1 .. n |-> <<sorted[i].x, sorted[i].y>>],
              timestamps |-> [i \in 1 .. n |-> sorted[i].timestamp]],
         confidence |-> SetMax({d.confidence : d \in Range(sorted)}),
         is_watermark |-> \E d \in Range(sorted) : d.is_watermark]

\* the timelines of the kept text groups, sorted by confidence
TimelinesOfGroups(text_groups) ==
    LET f[n \in 0 .. Len(text_groups)] ==
            IF n = 0 THEN <<>>
            ELSE IF KeepsGroup(text_groups[n].members)
                 THEN Append(f[n - 1],
                             MakeTimeline(text_groups[n].key, text_groups[n].members))
                 ELSE f[n - 1]
    IN  SortDescBy(f[Len(text_groups)], ConfidenceOf)

\* LogoDetector._create_watermark_timelines
CreateWatermarkTimelines(detections) ==
    TimelinesOfGroups(TextGroups(TopCandidates(detections)))

\* a detection dict of the timeline stage
Det(text, x, y, confidence, is_watermark, timestamp) ==
    [id |-> 0, x |-> x, y |-> y, width |-> 150, height |-> 30,
     confidence |-> confidence, text |-> text, is_watermark |-> is_watermark,
     frame_index |-> (timestamp - 2) \div 4, timestamp |-> timestamp]

\* Bounds of the grouping specification.
MaxDetections == 3

GroupPool ==
    { Det(<<"a", "b", "c", "d">>, 50, 50, 85, FALSE, 2),
      Det(<<"w", "x", "y", "z">>, 50, 50, 85, FALSE, 2),
      Det(<<"a", "b", "c", "d", "w", "x", "y", "z">>, 60, 50, 85, FALSE, 6),
      Det(<<"a", "b">>, 50, 50, 60, FALSE, 2),
      Det(<<" ", "A", "B", " ">>, 70, 60, 90, FALSE, 30),
      Det(<<"m", "a", "r", "k">>, 400, 50, 80, TRUE, 2),
      Det(<<"w", "a", "t", "e", "r">>, 50, 50, 65, TRUE, 30),
      Det(<<"f", "p", "s">>, 50, 50, 90, FALSE, 2),
      Det(<<"a", "b", "c", "d">>, 300, 50, 45, FALSE, 6),
      Det(<<>>, 50, 50, 90, FALSE, 2),
      Det(<<"w", "w", "w">>, 50, 300, 50, FALSE, 2),
      Det(<<"a", "b">>, 400, 300, 60, FALSE, 30) }

TIdle == tDetections = <<>> /\ tCandidates = NoValue /\ tTimelines = NoValue

\* one more detection is handed to the builder; its id is its arrival index
TAdd ==
    /\ tTimelines = NoValue
    /\ Len(tDetections) < MaxDetections
    /\ \E d \in GroupPool :
          tDetections' = Append(tDetections, [d EXCEPT !.id = Len(tDetections) + 1])
    /\ UNCHANGED <<tCandidates, tTimelines, tOthers>>

\* _create_watermark_timelines(detections)
TBuild ==
    /\ tTimelines = NoValue
    /\ tCandidates' = Some(TopCandidates(tDetections))
    /\ tTimelines' = Some(CreateWatermarkTimelines(tDetections))
    /\ UNCHANGED <<tDetections, tOthers>>

\* Bounds of the candidate-cap specification.
MaxCapDetections == 22

\* three kinds of detection, in the order in which a run of each arrives
CapPool ==
    << Det(<<"3", "0", "f", "p", "s">>, 10, 10, 90, FALSE, 2),
       Det(<<"a", "b", "c", "d">>, 50, 50, 55, FALSE, 2),
       Det(<<"m", "a", "r", "k">>, 60, 50, 70, TRUE, 6) >>

\* the kinds that may follow the detections so far
CapNextKinds ==
    IF tDetections = <<>> THEN 1 .. Len(CapPool)
    ELSE {k \in 1 .. Len(CapPool) :
             \E j \in 1 .. k :
                 [tDetections[Len(tDetections)] EXCEPT !.id = 0] = CapPool[j]}

\* one more detection of a long list is handed to the builder
CapAdd ==
    /\ tTimelines = NoValue
    /\ Len(tDetections) < MaxCapDetections
    /\ \E k \in CapNextKinds :
          tDetections' =
              Append(tDetections, [CapPool[k] EXCEPT !.id = Len(tDetections) + 1])
    /\ UNCHANGED <<tCandidates, tTimelines, tOthers>>

\* Bounds of the many-texts specification.
MaxManyDetections == 22

\* a two-digit text that no other index shares
NumberText(n) == <<Digits[(n \div 10) + 1], Digits[(n % 10) + 1]>>

\* the n-th detection of a long list: a confident text of its own, one
\* more sample of the watermark 'mark', or a weak text of its own
ManyKinds(n) ==
    << Det(NumberText(n), 50, 50, 90, FALSE, 2),
       Det(<<"m", "a", "r", "k">>, 60, 50, 70, TRUE, 6),
       Det(NumberText(n), 400, 300, 60, FALSE, 2) >>

\* the kind of the last detection handed over, 1 before the first
ManyLastKind ==
    IF tDetections = <<>> THEN 1
    ELSE LET last == tDetections[Len(tDetections)]
         IN  IF last.is_watermark THEN 2 ELSE IF last.confidence = 90 THEN 1 ELSE 3

\* one more detection of a list with many different texts
ManyAdd ==
    /\ tTimelines = NoValue
    /\ Len(tDetections) < MaxManyDetections
    /\ \E k \in ManyLastKind .. 3 :
          tDetections' =
              Append(tDetections,
                     [ManyKinds(Len(tDetections) + 1)[k] EXCEPT !.id = Len(tDetections) + 1])
    /\ UNCHANGED <<tCandidates, tTimelines, tOthers>>

\* ------------------------------------------------------ timeline selector
\* text[:n]
Prefix(text, n) == SubSeq(text, 1, Min2(n, Len(text)))

\* the indicators that choose the delogo method for a static watermark
DelogoIndicators ==
    { <<"w", "w", "w">>, <<".", "c", "o", "m">>, <<"(c)">>, <<"(r)">>, <<"(tm)">> }

\* max(positions, key=confidence): the first of the most confident
FirstMostConfident(positions) ==
    positions[SetMin({i \in 1 .. Len(positions) :
                         \A j \in 1 .. Len(positions) :
                             positions[j].confidence <= positions[i].confidence})]

\* the nested validate_coordinates of create_dynamic_removal_command
DynamicValidate(x0, y0, w0, h0, frame_width, frame_height) ==
    LET x1 == Max2(0, x0)
        y1 == Max2(0, y0)
        w1 == Max2(10, w0)
        h1 == Max2(10, h0)
        x2 == IF x1 >= frame_width THEN frame_width - 20 ELSE x1
        y2 == IF y1 >= frame_height THEN frame_height - 20 ELSE y1
        w2 == IF x2 + w1 > frame_width THEN frame_width - x2 ELSE w1
        h2 == IF y2 + h1 > frame_height THEN frame_height - y2 ELSE h1
    IN  [x |-> x2, y |-> y2, w |-> Max2(w2, 10), h |-> Max2(h2, 10)]

\* one filter of the -vf chain; a gblur filter carries no region
RegionFilter(kind, r, timed, start_time, end_time) ==
    [kind |-> kind, region |-> Some(r), timed |-> timed,
     start_time |-> start_time, end_time |-> end_time]

BlurFilter(start_time, end_time) ==
    [kind |-> "gblur", region |-> NoValue, timed |-> TRUE,
     start_time |-> start_time, end_time |-> end_time]

\* LogoDetector.create_dynamic_removal_command: the ffmpeg argument list
\* [ffmpeg, -i, video_path, -vf, filters, -c:a, copy]; it names no output
CreateDynamicRemovalCommand(watermark_timeline, method, frame_width, frame_height) ==
    LET detections == watermark_timeline.detections
        n == Len(detections)
        Segment(i) ==
            LET detection == detections[i]
                start_time == detection.timestamp
                end_time == IF i + 1 <= n THEN detections[i + 1].timestamp
                            ELSE start_time + 10
                r == DynamicValidate(Max2(0, detection.x - 10), Max2(0, detection.y - 10),
                                     detection.width + 20, detection.height + 20,
                                     frame_width, frame_height)
            IN  IF method = "blur" THEN BlurFilter(start_time, end_time)
                ELSE IF method = "delogo"
                THEN RegionFilter("delogo", r, TRUE, start_time, end_time)
                ELSE RegionFilter("drawbox", r, TRUE, start_time, end_time)
        static_filter ==
            LET detection == detections[1]
                r == DynamicValidate(detection.x, detection.y, detection.width,
                                     detection.height, frame_width, frame_height)
            IN  IF method \in {"blur", "delogo"}
                THEN RegionFilter("delogo", r, FALSE, 0, 0)
                ELSE RegionFilter("drawbox", r, FALSE, 0, 0)
    IN  [program |-> "ffmpeg", input |-> "video_path",
         vf |-> IF watermark_timeline.type = "static" THEN <<static_filter>>
                ELSE [i \in 1 .. n |-> Segment(i)],
         audio |-> "copy", output |-> NoValue]

\* VideoOperations._remove_moving_timeline_watermark: the command list is
\* never empty, so the dynamic worker is started
RemoveMovingTimelineWatermark(watermark_timeline, dynamic_dims) ==
    Some([op |-> "dynamic_removal",
          operation |-> "Removing Moving Watermark (Dynamic)",
          cmd |-> CreateDynamicRemovalCommand(watermark_timeline, "blur",
                                              dynamic_dims[1], dynamic_dims[2]),
          output_suffix |-> "_moving_removed.mp4"])

\* the expanded area measured between the origins of the positions only
ExpandedAreaOfOrigins(positions) ==
    LET idx == 1 .. Len(positions)
        min_x == SetMin({positions[i].x : i \in idx})
        min_y == SetMin({positions[i].y : i \in idx})
        max_x == SetMax({positions[i].x : i \in idx})
        max_y == SetMax({positions[i].y : i \in idx})
        padding == 15
    IN  [x |-> Max2(0, min_x - padding), y |-> Max2(0, min_y - padding),
         w |-> max_x - min_x + 2 * padding, h |-> max_y - min_y + 2 * padding]

\* raw_x, raw_y, raw_w, raw_h of the fallback: the area from the least x and
\* y to the greatest x + width and y + height, padded by 15
ExpandedArea(positions) ==
    LET idx == 1 .. Len(positions)
        min_x == SetMin({positions[i].x : i \in idx})
        min_y == SetMin({positions[i].y : i \in idx})
        max_x == SetMax({positions[i].x + positions[i].width : i \in idx})
        max_y == SetMax({positions[i].y + positions[i].height : i \in idx})
        padding == 15
    IN  [x |-> Max2(0, min_x - padding), y |-> Max2(0, min_y - padding),
         w |-> max_x - min_x + 2 * padding, h |-> max_y - min_y + 2 * padding]

\* VideoOperations._remove_moving_timeline_watermark_fallback: one expanded
\* area over all positions, padded by 15 and validated, given to the
\* inpainting worker
RemoveMovingTimelineWatermarkFallback(watermark_timeline, video_dims) ==
    LET text == Prefix(watermark_timeline.text, 20)
        raw == ExpandedArea(watermark_timeline.positions)
        v == ValidateCoordinates(raw.x, raw.y, raw.w, raw.h, video_dims[1], video_dims[2])
    IN  Some([op |-> "remove_logo",
              operation |-> "Removing Moving Watermark (Expanded Area)",
              method_type |-> "inpaint",
              watermark |-> [x |-> v.x, y |-> v.y, width |-> v.w, height |-> v.h,
                             confidence |-> watermark_timeline.confidence,
                             type |-> "moving_watermark", text |-> text],
              output_suffix |-> "_moving_removed.mp4"])

\* VideoOperations._remove_static_timeline_watermark
RemoveStaticTimelineWatermark(watermark_timeline, video_dims) ==
    LET positions == watermark_timeline.positions
        text == Prefix(watermark_timeline.text, 30)
        best_position == FirstMostConfident(positions)
        v == ValidateCoordinates(best_position.x, best_position.y,
                                 best_position.width, best_position.height,
                                 video_dims[1], video_dims[2])
        method_type ==
            IF watermark_timeline.is_watermark \/ AnyIn(DelogoIndicators, ToLower(text))
            THEN "delogo"
            ELSE IF Contains(<<"t", "e", "x", "t">>, ToLower(text)) \/ Len(text) > 5
            THEN "inpaint"
            ELSE "blur"
    IN  IF positions = <<>> THEN NoValue
        ELSE Some([op |-> "remove_logo",
                   operation |-> "Removing Static Watermark",
                   method_type |-> method_type,
                   watermark |-> [x |-> v.x, y |-> v.y, width |-> v.w, height |-> v.h,
                                  confidence |-> best_position.confidence,
                                  type |-> "static_watermark", text |-> text],
                   output_suffix |-> "_static_removed.mp4"])

\* VideoOperations._remove_single_timeline_watermark
RemoveSingleTimelineWatermark(watermark_timeline, video_dims, dynamic_dims) ==
    IF watermark_timeline.is_moving /\ Len(watermark_timeline.positions) > 1
    THEN RemoveMovingTimelineWatermark(watermark_timeline, dynamic_dims)
    ELSE RemoveStaticTimelineWatermark(watermark_timeline, video_dims)

\* the sort key (is_watermark, confidence, len(positions)) as one number:
\* confidence is at most 100 and a timeline has fewer than 100 positions
PriorityKey(t) ==
    ((IF t.is_watermark THEN 1 ELSE 0) * 101 + t.confidence) * 100 + Len(t.positions)

\* the selector without its sort: the builder's first timeline
FirstTimelineIndex(watermark_timelines) == 1

\* the index of sorted(watermark_timelines, key=..., reverse=True)[0]
BestTimelineIndex(watermark_timelines) ==
    LET idx == [i \in 1 .. Len(watermark_timelines) |-> i]
        Key(i) == PriorityKey(watermark_timelines[i])
    IN  SortDescBy(idx, Key)[1]

\* VideoOperations._remove_timeline_watermarks: the timeline it acts on (its
\* index in the list it was given) and the worker it starts
RemoveTimelineWatermarks(watermark_timelines, video_dims, dynamic_dims) ==
    LET target == IF Len(watermark_timelines) = 1 THEN 1
                  ELSE BestTimelineIndex(watermark_timelines)
    IN  [target |-> target,
         worker |-> RemoveSingleTimelineWatermark(watermark_timelines[target],
                                                  video_dims, dynamic_dims)]

\* the frame sizes of the videos, and what each probe reports: the size,
\* or its fallback when ffprobe fails
VideoSizes == {<<640, 360>>, <<1920, 1080>>}
StaticProbe(size) == {size, <<1920, 1080>>}
DynamicProbe(size) == {size, <<640, 480>>}

\* Bounds of the selector specification.
MaxTimelines == 5

TimelinePool ==
    { MakeTimeline(<<"m", "a", "r", "k">>,
                   <<[Det(<<"m", "a", "r", "k">>, 50, 50, 80, TRUE, 2) EXCEPT !.id = 1]>>),
      MakeTimeline(<<"w", "a", "t", "e", "r">>,
                   <<[Det(<<"w", "a", "t", "e", "r">>, 600, 340, 80, TRUE, 6) EXCEPT !.id = 2]>>),
      MakeTimeline(<<"a", "b", "c", "d">>,
                   <<[Det(<<"a", "b", "c", "d">>, 50, 300, 90, FALSE, 2) EXCEPT !.id = 3]>>),
      MakeTimeline(<<"l", "o", "g", "o">>,
                   <<[Det(<<"l", "o", "g", "o">>, 1800, 1060, 85, TRUE, 2) EXCEPT !.id = 10]>>),
      MakeTimeline(<<"m", "o", "v", "i", "n", "g">>,
                   <<[Det(<<"m", "o", "v", "i", "n", "g">>, 50, 50, 70, TRUE, 2) EXCEPT !.id = 4],
                     [Det(<<"m", "o", "v", "i", "n", "g">>, 450, 50, 75, TRUE, 6) EXCEPT !.id = 5]>>),
      MakeTimeline(<<"w", "x", "y", "z">>,
                   <<[Det(<<"w", "x", "y", "z">>, 200, 200, 60, FALSE, 2) EXCEPT !.id = 6],
                     [Det(<<"w", "x", "y", "z">>, 204, 200, 85, FALSE, 6) EXCEPT !.id = 7]>>),
      MakeTimeline(<<"w", "w", "w", ".", "a", ".", "t", "v">>,
                   <<[Det(<<"w", "w", "w", ".", "a", ".", "t", "v">>, 10, 10, 80, FALSE, 2) EXCEPT !.id = 8],
                     [Det(<<"w", "w", "w", ".", "a", ".", "t", "v">>, 10, 12, 80, FALSE, 6) EXCEPT !.id = 9]>>) }

SIdle == sTimelines = <<>> /\ sResult = NoValue

\* one more timeline of the builder's output: it returns them sorted by
\* confidence, one per text
SAdd ==
    /\ sResult = NoValue
    /\ Len(sTimelines) < MaxTimelines
    /\ \E t \in TimelinePool :
          /\ \A i \in 1 .. Len(sTimelines) : sTimelines[i].text # t.text
          /\ sTimelines # <<>> => sTimelines[Len(sTimelines)].confidence >= t.confidence
          /\ sTimelines' = Append(sTimelines, t)
    /\ UNCHANGED <<sResult, sOthers>>

\* _remove_timeline_watermarks(file_path, watermark_timelines)
SRemove ==
    /\ sResult = NoValue
    /\ sTimelines # <<>>
    /\ \E size \in VideoSizes :
          \E video_dims \in StaticProbe(size) : \E dynamic_dims \in DynamicProbe(size) :
              sResult' = Some(RemoveTimelineWatermarks(sTimelines, video_dims, dynamic_dims))
    /\ UNCHANGED <<sTimelines, sOthers>>

\* ------------------------------------------------ automatic removal path
\* sample_interval=2.0 of _remove_logo_automatic, in half seconds
SampleInterval == 4

\* the sampled timestamps of detect_logos_with_timeline for a duration in
\* whole seconds: 1.0, 3.0, ... below duration - 1.0, or three fixed ones
\* when that gives fewer than 3
SampleTimestamps(duration) ==
    LET Loop[k \in 0 .. duration + 1] ==
            LET current_time == 2 + (duration - k) * SampleInterval
            IN  IF k = 0 \/ ~(current_time < 2 * duration - 2) THEN <<>>
                ELSE <<current_time>> \o Loop[k - 1]
        timestamps == Loop[duration]
    IN  IF Len(timestamps) < 3 THEN <<2, duration, 2 * duration - 2>>
        ELSE timestamps

\* LogoDetector.extract_frame: None unless ffmpeg wrote a frame that
\* cv2.imread could read
ExtractOutcomes == {"nonzero_exit", "exception", "unreadable", "frame"}
ExtractFrame(outcome, frame) ==
    IF outcome = "frame" THEN Some(frame) ELSE NoValue

\* the temporal information added to the detections of sample i
TagDetections(frame_detections, i, timestamp) ==
    [k \in 1 .. Len(frame_detections) |->
        [frame_detections[k] EXCEPT !.frame_index = i, !.timestamp = timestamp]]

\* the sample taken after one whose frame is None: `continue`
AbortAfterNone(i, n) == n

AfterNone(i, n) == i + 1

NoLogosMessage == "No logos detected automatically. Try manual positioning."

\* the filter of _remove_logo_automatic for more than 50 timelines
FilterExcessive(watermark_timelines) ==
    LET Key(t) == t.confidence * (IF t.is_watermark THEN 2 ELSE 1) * 100 + Len(t.positions)
    IN  IF Len(watermark_timelines) > 50
        THEN Prefix(SortDescBy(watermark_timelines, Key), 10)
        ELSE watermark_timelines

\* Bounds of the automatic path: video durations in seconds, and what the
\* region proposer finds in one frame.
MaxDuration == 10
Durations == {2, 4, 7, MaxDuration}

FramePool ==
    { <<>>,
      <<Det(<<"m", "a", "r", "k">>, 50, 50, 80, TRUE, 0)>>,
      <<Det(<<"a", "b">>, 500, 300, 60, FALSE, 0)>>,
      <<Det(<<"m", "a", "r", "k">>, 52, 50, 75, TRUE, 0),
        Det(<<"a", "b">>, 500, 300, 60, FALSE, 0)>> }

AIdle ==
    /\ aPc = "idle" /\ aTimestamps = <<>> /\ aIndex = 0 /\ aFrames = <<>>
    /\ aAll = <<>> /\ aTimelines = NoValue /\ aError = NoValue /\ aWorker = NoValue

\* _remove_logo_automatic up to the sampling loop
AStart ==
    /\ aPc = "idle"
    /\ \E duration \in Durations : aTimestamps' = SampleTimestamps(duration)
    /\ aPc' = "sampling"
    /\ UNCHANGED <<aIndex, aFrames, aAll, aTimelines, aError, aWorker, aOthers>>

\* one pass of the loop over the timestamps
ASample ==
    /\ aPc = "sampling"
    /\ aIndex < Len(aTimestamps)
    /\ \E outcome \in ExtractOutcomes : \E found \in FramePool :
          LET frame == ExtractFrame(outcome, found)
              timestamp == aTimestamps[aIndex + 1]
          IN  /\ outcome # "frame" => found = <<>>
              /\ aFrames' = Append(aFrames, frame)
              /\ IF frame = NoValue
                 THEN /\ aIndex' = AfterNone(aIndex, Len(aTimestamps))
                      /\ aAll' = aAll
                 ELSE /\ aIndex' = aIndex + 1
                      /\ aAll' = aAll \o TagDetections(The(frame), aIndex, timestamp)
    /\ UNCHANGED <<aPc, aTimestamps, aTimelines, aError, aWorker, aOthers>>

\* Bounds of the tracking specification: one video long enough for five
\* samples, and in each frame at most one detection of the same text.
TrackDuration == 11

TrackPool ==
    { Det(<<"m", "a", "r", "k">>, 50, 50, 50, TRUE, 0),
      Det(<<"m", "a", "r", "k">>, 50, 50, 80, TRUE, 0),
      Det(<<"m", "a", "r", "k">>, 60, 50, 80, TRUE, 0),
      Det(<<"m", "a", "r", "k">>, 150, 50, 80, TRUE, 0),
      Det(<<"m", "a", "r", "k">>, 250, 50, 80, TRUE, 0),
      Det(<<"m", "a", "r", "k">>, 350, 50, 80, TRUE, 0),
      Det(<<"m", "a", "r", "k">>, 450, 50, 80, TRUE, 0),
      Det(<<"m", "a", "r", "k">>, 50, 200, 80, TRUE, 0),
      Det(<<"m", "a", "r", "k">>, 450, 200, 80, TRUE, 0) }

\* _remove_logo_automatic up to the sampling loop, on that video
ATrackStart ==
    /\ aPc = "idle"
    /\ aTimestamps' = SampleTimestamps(TrackDuration)
    /\ aPc' = "sampling"
    /\ UNCHANGED <<aIndex, aFrames, aAll, aTimelines, aError, aWorker, aOthers>>

\* one pass of the loop on a frame that was extracted: the text is not
\* found in it, or found once, to the right of or below where it was last
ATrackSample ==
    /\ aPc = "sampling"
    /\ aIndex < Len(aTimestamps)
    /\ \E found \in {<<>>} \cup {<<d>> : d \in TrackPool} :
          LET frame == ExtractFrame("frame", found)
              timestamp == aTimestamps[aIndex + 1]
          IN  /\ (found # <<>> /\ aAll # <<>>) =>
                     /\ aAll[Len(aAll)].x <= found[1].x
                     /\ aAll[Len(aAll)].y <= found[1].y
              /\ aFrames' = Append(aFrames, frame)
              /\ aIndex' = aIndex + 1
              /\ aAll' = aAll \o TagDetections(The(frame), aIndex, timestamp)
    /\ UNCHANGED <<aPc, aTimestamps, aTimelines, aError, aWorker, aOthers>>

\* after the loop: the builder, then the rest of _remove_logo_automatic
AFinish ==
    /\ aPc = "sampling"
    /\ aIndex >= Len(aTimestamps)
    /\ LET watermark_timelines == CreateWatermarkTimelines(aAll)
       IN  /\ aTimelines' = Some(watermark_timelines)
           /\ IF watermark_timelines = <<>>
              THEN /\ aError' = Some(NoLogosMessage)
                   /\ aWorker' = NoValue
              ELSE /\ aError' = NoValue
                   /\ \E size \in VideoSizes :
                         \E video_dims \in StaticProbe(size) :
                         \E dynamic_dims \in DynamicProbe(size) :
                             aWorker' = RemoveTimelineWatermarks(
                                            FilterExcessive(watermark_timelines),
                                            video_dims, dynamic_dims).worker
    /\ aPc' = "done"
    /\ UNCHANGED <<aTimestamps, aIndex, aFrames, aAll, aOthers>>

\* -------------------------------------------------------- region proposer
\* A frame is its height and width; a region is a slice of it with the
\* offset of the slice. What the frame shows is what OCR reads in a region
\* and the connected components the threshold finds there.
Region(x, y, w, h) == [x |-> x, y |-> y, w |-> w, h |-> h]

\* what pytesseract reads: nothing, a text the classifier rejects, or one
\* it takes for a watermark
OcrReadings ==
    { [text |-> <<>>, is_watermark |-> FALSE],
      [text |-> <<"a", "b">>, is_watermark |-> FALSE],
      [text |-> <<"w", "w", "w", ".", "a", ".", "t", "v">>, is_watermark |-> TRUE] }
NoReading == [text |-> <<>>, is_watermark |-> FALSE]

Proposal(x, y, width, height, confidence, type, reading, corner) ==
    [x |-> x, y |-> y, width |-> width, height |-> height,
     confidence |-> confidence, type |-> type, text |-> reading.text,
     is_watermark |-> reading.is_watermark, corner |-> corner,
     moving_scan |-> FALSE]

\* the size guard of _detect_text_with_ocr_full_region, left out
FullRegionNeverTooLarge(h, w) == FALSE

\* _detect_text_with_ocr_full_region works on small regions only
FullRegionTooLarge(h, w) == h > 200 \/ w > 300

\* LogoDetector._detect_text_with_ocr_full_region
DetectTextWithOcrFullRegion(region, reading) ==
    LET padding_x == Min2(10, region.w \div 10)
        padding_y == Min2(8, region.h \div 10)
    IN  IF FullRegionTooLarge(region.h, region.w) THEN <<>>
        ELSE IF Len(reading.text) > 2 /\ reading.is_watermark
        THEN <<Proposal(Max2(0, region.x - padding_x), Max2(0, region.y - padding_y),
                        region.w + 2 * padding_x, region.h + 2 * padding_y,
                        80, "ocr_full_region", reading, <<"full_region_scan">>)>>
        ELSE <<>>

\* LogoDetector._detect_text_with_ocr
RECURSIVE DetectTextWithOcr(_, _)
DetectTextWithOcr(region, reading) ==
    LET h == region.h
        w == region.w
        full_region_detections == DetectTextWithOcrFullRegion(region, reading)
        Sub(sub_x, sub_y, sub_w, sub_h) ==
            IF sub_w * sub_h > 0
            THEN DetectTextWithOcr(Region(region.x + sub_x, region.y + sub_y, sub_w, sub_h),
                                   reading)
            ELSE <<>>
    IN  IF h < 20 \/ w < 20 THEN <<>>
        ELSE IF h > 400 \/ w > 400
        THEN IF \E i \in 1 .. Len(full_region_detections) :
                   /\ full_region_detections[i].is_watermark
                   /\ full_region_detections[i].confidence > 70
             THEN full_region_detections
             ELSE full_region_detections
                  \o Sub(0, 0, w \div 3, h \div 3)
                  \o Sub((2 * w) \div 3, 0, w - (2 * w) \div 3, h \div 3)
                  \o Sub(0, (2 * h) \div 3, w \div 3, h - (2 * h) \div 3)
                  \o Sub((2 * w) \div 3, (2 * h) \div 3,
                         w - (2 * w) \div 3, h - (2 * h) \div 3)
        ELSE IF Len(reading.text) > 1
        THEN <<Proposal(region.x, region.y, w, h,
                        IF reading.is_watermark THEN 80 ELSE 50,
                        "ocr_tesseract", reading, <<"ocr_detected">>)>>
        ELSE <<>>

\* LogoDetector._detect_text_regions_selective; stats are the rows
\* (x, y, cw, ch, area) of connectedComponentsWithStats
DetectTextRegionsSelective(region, stats, reading) ==
    LET Passes(s) ==
            /\ s.cw > 20 /\ s.ch > 10
            /\ 10 * s.cw < 8 * region.w /\ 10 * s.ch < 8 * region.h
            /\ 2 * s.cw <= 10 * s.ch /\ s.ch <= 2 * s.cw
            /\ s.area > 100
            /\ 10 * s.area > 3 * s.cw * s.ch
        confidence(s) == Min2((100 * s.area) \div (s.cw * s.ch), 100)
        One(s) ==
            IF Len(reading.text) > 1
            THEN Proposal(region.x + s.x, region.y + s.y, s.cw, s.ch,
                          IF reading.is_watermark THEN 80 ELSE confidence(s),
                          "text_selective", reading, <<"selective_ocr">>)
            ELSE Proposal(region.x + s.x, region.y + s.y, s.cw, s.ch, confidence(s),
                          "text_selective", NoReading, <<"selective_shape">>)
        f[n \in 0 .. Len(stats)] ==
            IF n = 0 THEN <<>>
            ELSE IF Passes(stats[n]) THEN Append(f[n - 1], One(stats[n]))
            ELSE f[n - 1]
    IN  f[Len(stats)]

\* LogoDetector._detect_logos_in_region
DetectLogosInRegion(region, stats, reading) ==
    LET ocr_boxes == DetectTextWithOcr(region, reading)
    IN  IF \E i \in 1 .. Len(ocr_boxes) : ocr_boxes[i].is_watermark
        THEN ocr_boxes
        ELSE ocr_boxes \o DetectTextRegionsSelective(region, stats, reading)

\* the twelve named regions of detect_logos_in_corners, before clipping
CornerRegions(h, w) ==
    LET corner_w == (w * 3) \div 10
        corner_h == (h * 3) \div 10
    IN  << <<"top_left", Region(0, 0, corner_w, corner_h)>>,
           <<"top_right", Region(w - corner_w, 0, corner_w, corner_h)>>,
           <<"bottom_left", Region(0, h - corner_h, corner_w, corner_h)>>,
           <<"bottom_right", Region(w - corner_w, h - corner_h, corner_w, corner_h)>>,
           <<"top_center", Region(w \div 2 - corner_w \div 2, 0, corner_w, corner_h \div 2)>>,
           <<"bottom_center", Region(w \div 2 - corner_w \div 2, h - corner_h \div 2,
                                     corner_w, corner_h \div 2)>>,
           <<"left_center", Region(0, h \div 2 - corner_h \div 2, corner_w \div 2, corner_h)>>,
           <<"right_center", Region(w - corner_w \div 2, h \div 2 - corner_h \div 2,
                                    corner_w \div 2, corner_h)>>,
           <<"top_edge", Region(0, 0, w, (h * 2) \div 10)>>,
           <<"bottom_edge", Region(0, (h * 8) \div 10, w, (h * 2) \div 10)>>,
           <<"left_edge", Region(0, 0, (w * 2) \div 10, h)>>,
           <<"right_edge", Region((w * 8) \div 10, 0, (w * 2) \div 10, h)>> >>

\* "ensure we don't go out of bounds"
ClipRegion(r, h, w) ==
    LET x == Max2(0, Min2(r.x, w - 1))
        y == Max2(0, Min2(r.y, h - 1))
    IN  Region(x, y, Min2(r.w, w - x), Min2(r.h, h - y))

WithCorner(boxes, corner) ==
    [i \in 1 .. Len(boxes) |-> [boxes[i] EXCEPT !.corner = corner]]

\* what a frame shows: the regions (by their place in the scan) that hold
\* something, what OCR reads there and the components found there
StatsIn(region, shapes) ==
    LET near == [x |-> 0, y |-> 0, cw |-> 21, ch |-> 11, area |-> 200]
        cw == (8 * region.w - 1) \div 10
        ch == Min2((8 * region.h - 1) \div 10, 2 * cw)
        far == [x |-> region.w - cw, y |-> region.h - ch, cw |-> cw, ch |-> ch,
                area |-> cw * ch]
    IN  IF shapes = "near" THEN <<near>>
        ELSE IF shapes = "far" /\ cw > 0 /\ ch > 0 THEN <<far>>
        ELSE <<>>

ReadingAt(content, k) == IF k \in content.hits THEN content.reading ELSE NoReading
StatsAt(content, k, region) ==
    IF k \in content.hits THEN StatsIn(region, content.shapes) ELSE <<>>

\* LogoDetector.detect_logos_in_corners
DetectLogosInCorners(h, w, content) ==
    LET regions == CornerRegions(h, w)
        f[n \in 0 .. Len(regions)] ==
            IF n = 0 THEN <<>>
            ELSE LET r == ClipRegion(regions[n][2], h, w)
                 IN  IF r.w > 0 /\ r.h > 0
                     THEN f[n - 1] \o WithCorner(DetectLogosInRegion(r, StatsAt(content, n, r),
                                                                     ReadingAt(content, n)),
                                                 <<regions[n][1]>>)
                     ELSE f[n - 1]
    IN  f[Len(regions)]

\* the cells of the 6x6 grid outside its central 4x4, row by row
GridCells ==
    LET all == [k \in 1 .. 36 |-> <<(k - 1) \div 6, (k - 1) % 6>>]
    IN  SelectSeq(all, LAMBDA c : ~(1 <= c[1] /\ c[1] <= 4 /\ 1 <= c[2] /\ c[2] <= 4))

\* LogoDetector._detect_moving_watermarks; the cells are regions
\* first + 1, first + 2, ... of the scan
DetectMovingWatermarks(h, w, content, first) ==
    LET cell_w == w \div 6
        cell_h == h \div 6
        f[n \in 0 .. Len(GridCells)] ==
            IF n = 0 THEN <<>>
            ELSE LET row == GridCells[n][1]
                     col == GridCells[n][2]
                     x == col * cell_w
                     y == row * cell_h
                     cell == Region(x, y, Min2(cell_w, w - x), Min2(cell_h, h - y))
                     found == DetectTextWithOcr(cell, ReadingAt(content, first + n))
                 IN  f[n - 1] \o
                     [i \in 1 .. Len(found) |->
                         [found[i] EXCEPT !.corner = <<"grid", row, col>>,
                                          !.moving_scan = TRUE]]
    IN  f[Len(GridCells)]

\* LogoDetector._detect_text_watermarks_full_frame: a frame with a side
\* above 800 is scanned at scale 800 / max(h, w) and the boxes scaled back
DetectTextWatermarksFullFrame(h, w, content) ==
    LET longest == Max2(h, w)
        scaled == h > 800 \/ w > 800
        new_h == IF scaled THEN (h * 800) \div longest ELSE h
        new_w == IF scaled THEN (w * 800) \div longest ELSE w
        all_detections ==
            DetectTextWithOcr(Region(0, 0, new_w, new_h), ReadingAt(content, 1))
            \o DetectMovingWatermarks(new_h, new_w, content, 1)
        Back(v) == (v * longest) \div 800
    IN  IF scaled
        THEN [i \in 1 .. Len(all_detections) |->
                 [all_detections[i] EXCEPT !.x = Back(@), !.y = Back(@),
                                           !.width = Back(@), !.height = Back(@)]]
        ELSE all_detections

\* Bounds of the proposer specification: the frames (height, width), and
\* how many regions of one frame hold something.
MaxHits == 1
FrameSizes == {<<90, 100>>, <<360, 640>>, <<601, 1001>>, <<1080, 1920>>, <<1500, 2500>>}
ShapeKinds == {"none", "near", "far"}

Contents(regions) ==
    { [hits |-> hits, reading |-> reading, shapes |-> shapes] :
        hits \in {s \in SUBSET (1 .. regions) : Cardinality(s) <= MaxHits},
        reading \in OcrReadings, shapes \in ShapeKinds }

PIdle == pFrame = NoValue /\ pContent = NoValue /\ pEntry = "" /\ pReturned = NoValue

PDetectLogosInCorners ==
    /\ pReturned = NoValue
    /\ \E size \in FrameSizes : \E content \in Contents(12) :
          /\ pFrame' = Some(size)
          /\ pContent' = Some(content)
          /\ pReturned' = Some(DetectLogosInCorners(size[1], size[2], content))
    /\ pEntry' = "detect_logos_in_corners"
    /\ UNCHANGED pOthers

PDetectTextWatermarksFullFrame ==
    /\ pReturned = NoValue
    /\ \E size \in FrameSizes : \E content \in Contents(21) :
          /\ content.shapes = "none"
          /\ pFrame' = Some(size)
          /\ pContent' = Some(content)
          /\ pReturned' = Some(DetectTextWatermarksFullFrame(size[1], size[2], content))
    /\ pEntry' = "_detect_text_watermarks_full_frame"
    /\ UNCHANGED pOthers

PDetectMovingWatermarks ==
    /\ pReturned = NoValue
    /\ \E size \in FrameSizes : \E content \in Contents(20) :
          /\ content.shapes = "none"
          /\ pFrame' = Some(size)
          /\ pContent' = Some(content)
          /\ pReturned' = Some(DetectMovingWatermarks(size[1], size[2], content, 0))
    /\ pEntry' = "_detect_moving_watermarks"
    /\ UNCHANGED pOthers

\* ----------------------------------------------------- remove_logo worker
\* what the dimension probe of remove_logo_worker yields: the size of the
\* video, or 1920x1080 when ffprobe fails
WorkerProbe(size, probe_ok) == IF probe_ok THEN size ELSE <<1920, 1080>>

MethodTypes == {"blur", "blackout", "pixelate", "inpaint", "lama", "delogo"}

\* how the lama branch goes: the import fails, the test frame cannot be
\* extracted or read, the cleaner fails or succeeds, or something raises
LamaOutcomes ==
    {"import_error", "extract_failed", "unreadable", "clean_failed", "clean_ok", "exception"}

\* the filter the command applies to the region
WorkerFilter(method_type, logo_type, lama) ==
    IF method_type = "blur"
    THEN IF logo_type = "moving_watermark" THEN "crop,gblur=sigma=20" ELSE "crop,gblur=sigma=15"
    ELSE IF method_type = "blackout" THEN "drawbox"
    ELSE IF method_type = "pixelate" THEN "crop,scale"
    ELSE IF method_type = "inpaint"
    THEN IF logo_type = "moving_watermark" THEN "crop,median=7,gblur=sigma=2"
         ELSE IF logo_type = "combined_watermarks" THEN "crop,median=9,gblur=sigma=3"
         ELSE "crop,median=5"
    ELSE IF method_type = "lama"
    THEN IF lama = "clean_ok" THEN "crop,median=9,gblur=sigma=4"
         ELSE "crop,median=9,gblur=sigma=3"
    ELSE "delogo"

\* the area check of remove_logo_worker, left out
AreaNeverTooSmall(w, h) == FALSE

\* "ensure minimum size"
AreaTooSmall(w, h) == w < 2 \/ h < 2

\* WorkerThread.remove_logo_worker: whether the removal command was run, on
\* which region, and what finished() was emitted with
RemoveLogoWorker(method_type, logo_position, video_dims, lama, ffmpeg_ok) ==
    LET video_width == video_dims[1]
        video_height == video_dims[2]
        padding == 5
        x0 == Max2(0, logo_position.x - padding)
        y0 == Max2(0, logo_position.y - padding)
        w0 == logo_position.width + 2 * padding
        h0 == logo_position.height + 2 * padding
        x == Max2(0, Min2(x0, video_width - 1))
        y == Max2(0, Min2(y0, video_height - 1))
        max_w == video_width - x
        max_h == video_height - y
        w == Min2(w0, max_w - 1)
        h == Min2(h0, max_h - 1)
        Stopped(reason) ==
            [ran |-> FALSE, region |-> NoValue, filter |-> "",
             finished |-> [success |-> FALSE, reason |-> reason]]
    IN  IF x0 >= video_width \/ y0 >= video_height THEN Stopped("outside video frame")
        ELSE IF AreaTooSmall(w, h) THEN Stopped("area too small")
        ELSE IF method_type = "lama" /\ lama = "extract_failed"
        THEN Stopped("failed to extract frame")
        ELSE IF method_type = "lama" /\ lama = "unreadable"
        THEN Stopped("failed to read frame")
        ELSE [ran |-> TRUE,
              region |-> Some([x |-> x, y |-> y, w |-> w, h |-> h]),
              filter |-> WorkerFilter(method_type, logo_position.type, lama),
              finished |-> [success |-> ffmpeg_ok,
                            reason |-> IF ffmpeg_ok THEN "completed" ELSE "removal failed"]]

\* Bounds of the worker specification: the sides of the video frames, and
\* logo positions around the padding, the frame sides and the minimum area.
WorkerSide == 12
WorkerSizes == {<<WorkerSide, WorkerSide>>, <<WorkerSide + 4, WorkerSide - 2>>}
WorkerOffsets == {-1, 0, 5, 6, WorkerSide + 3, WorkerSide + 4, WorkerSide + 5, WorkerSide + 9}
WorkerExtents == {-9, -8, 0, 4, WorkerSide}
LogoTypes == {"static_watermark", "moving_watermark", "combined_watermarks"}

WIdle == wIn = NoValue /\ wOut = NoValue

\* run() with operation_type "remove_logo"
WRemoveLogo ==
    /\ wOut = NoValue
    /\ \E size \in WorkerSizes, probe_ok \in BOOLEAN, method_type \in MethodTypes,
          x \in WorkerOffsets, y \in {0, WorkerSide + 4}, w \in WorkerExtents,
          h \in {-8, 4}, lama \in LamaOutcomes, ffmpeg_ok \in BOOLEAN,
          logo_type \in LogoTypes :
          LET logo_position == [x |-> x, y |-> y, width |-> w, height |-> h,
                                type |-> logo_type]
              video_dims == WorkerProbe(size, probe_ok)
          IN  /\ method_type # "lama" => lama = "clean_ok"
              /\ method_type \notin {"blur", "inpaint"} => logo_type = "static_watermark"
              /\ wIn' = Some([method_type |-> method_type, logo_position |-> logo_position,
                              video_dims |-> video_dims, lama |-> lama])
              /\ wOut' = Some(RemoveLogoWorker(method_type, logo_position, video_dims,
                                               lama, ffmpeg_ok))
    /\ UNCHANGED wOthers

\* ------------------------------------------- removal of a moving timeline
\* the methods create_dynamic_removal_command tells apart; any other name
\* is treated as drawbox
DynamicMethods == {"blur", "delogo", "drawbox"}

\* ffmpeg's between(t, min, max) of an enable option: 1 when min <= t <= max
Between(t, min, max) == min <= t /\ t <= max

\* the filter acts on the frame shown at time t
FilterEnabled(f, t) == f.timed => Between(t, f.start_time, f.end_time)

\* Bounds of the moving-removal specification.
MaxMoves == 3

\* where the text was found: inside both frame sizes, one pixel from and
\* touching the right edge of the small one, touching its bottom edge, and
\* touching both edges of the large one
MovePositions ==
    { <<0, 0>>, <<489, 50>>, <<490, 50>>, <<300, 330>>, <<1770, 1050>> }

\* the detections lie in the frame of the video they were found in
InFrame(detections, size) ==
    \A i \in 1 .. Len(detections) :
        /\ detections[i].x >= 0 /\ detections[i].y >= 0
        /\ detections[i].x + detections[i].width <= size[1]
        /\ detections[i].y + detections[i].height <= size[2]

DIdle == dDetections = <<>> /\ dPlan = NoValue /\ dExpanded = NoValue

\* the timeline the builder makes of the group
MoveTimeline == MakeTimeline(<<"m", "a", "r", "k">>, dDetections)

\* one more detection of the text, in the frame of the last one or in the
\* next sampled frame
DDetect ==
    /\ dPlan = NoValue /\ dExpanded = NoValue
    /\ Len(dDetections) < MaxMoves
    /\ \E pos \in MovePositions :
       \E timestamp \in IF dDetections = <<>> THEN {2}
                         ELSE {dDetections[Len(dDetections)].timestamp,
                               dDetections[Len(dDetections)].timestamp + SampleInterval} :
          dDetections' =
              Append(dDetections,
                     [Det(<<"m", "a", "r", "k">>, pos[1], pos[2], 80, TRUE, timestamp)
                         EXCEPT !.id = Len(dDetections) + 1])
    /\ UNCHANGED <<dPlan, dExpanded, dOthers>>

\* create_dynamic_removal_command(video_path, watermark_timeline, method)
DCreateCommand ==
    /\ dPlan = NoValue /\ dExpanded = NoValue
    /\ dDetections # <<>>
    /\ \E method \in DynamicMethods : \E size \in VideoSizes :
       \E dynamic_dims \in DynamicProbe(size) :
          /\ InFrame(dDetections, size)
          /\ dPlan' = Some([timeline |-> MoveTimeline, method |-> method,
                         dims |-> dynamic_dims,
                         cmd |-> CreateDynamicRemovalCommand(MoveTimeline, method,
                                     dynamic_dims[1], dynamic_dims[2])])
    /\ UNCHANGED <<dDetections, dExpanded, dOthers>>

\* _remove_moving_timeline_watermark_fallback(file_path, watermark_timeline),
\* reached for a moving timeline of several positions
DFallback ==
    /\ dPlan = NoValue /\ dExpanded = NoValue
    /\ dDetections # <<>>
    /\ MoveTimeline.is_moving /\ Len(MoveTimeline.positions) > 1
    /\ \E size \in VideoSizes : \E video_dims \in StaticProbe(size) :
          /\ InFrame(dDetections, size)
          /\ dExpanded' = Some([timeline |-> MoveTimeline, size |-> size,
                             video_dims |-> video_dims,
                             worker |-> RemoveMovingTimelineWatermarkFallback(
                                            MoveTimeline, video_dims)])
    /\ UNCHANGED <<dDetections, dPlan, dOthers>>

\* ------------------------------------------------- lama-cleaner frames
\* dict.get(key, default)
Get(dict, key, default) == IF key \in DOMAIN dict THEN dict[key] ELSE default

\* a time later than every frame, for the default end_time float('inf')
Infinity == 1000000

\* the timeline has a detection whose start_time .. end_time holds the time
TimelineActive(timeline, current_time) ==
    \E k \in 1 .. Len(timeline.detections) :
        /\ Get(timeline.detections[k], "start_time", 0) <= current_time
        /\ current_time <= Get(timeline.detections[k], "end_time", Infinity)

\* the detection closest to the current time by its 'time' key: the first
\* of the closest
BestDetection(timeline, current_time) ==
    LET detections == timeline.detections
        TimeDiff(k) == Abs(current_time - Get(detections[k], "time", 0))
    IN  detections[SetMin({k \in 1 .. Len(detections) :
                              \A j \in 1 .. Len(detections) : TimeDiff(k) <= TimeDiff(j)})]

\* LamaCleaner._get_watermarks_for_time
GetWatermarksForTime(watermark_timelines, current_time) ==
    LET f[n \in 0 .. Len(watermark_timelines)] ==
            IF n = 0 THEN <<>>
            ELSE IF /\ "detections" \in DOMAIN watermark_timelines[n]
                    /\ TimelineActive(watermark_timelines[n], current_time)
                 THEN Append(f[n - 1], BestDetection(watermark_timelines[n], current_time))
                 ELSE f[n - 1]
    IN  f[Len(watermark_timelines)]

\* the bounding box create_mask_from_detections reads from a detection:
\* 'bbox', or the keys x, y, w, h, or none
BoundingBox(detection) ==
    IF "bbox" \in DOMAIN detection THEN Some(detection["bbox"])
    ELSE IF {"x", "y", "w", "h"} \subseteq DOMAIN detection
    THEN Some(<<detection["x"], detection["y"], detection["w"], detection["h"]>>)
    ELSE NoValue

\* LamaCleaner.create_mask_from_detections: the mask is the list of the
\* rectangles set to 255, the rest of the image_shape stays 0
CreateMaskFromDetections(image_shape, detections) ==
    LET f[n \in 0 .. Len(detections)] ==
            IF n = 0 THEN <<>>
            ELSE LET box == BoundingBox(detections[n])
                 IN  IF box = NoValue THEN f[n - 1]
                     ELSE LET x == Max2(0, Min2(The(box)[1], image_shape[2] - 1))
                              y == Max2(0, Min2(The(box)[2], image_shape[1] - 1))
                              w == Max2(1, Min2(The(box)[3], image_shape[2] - x))
                              h == Max2(1, Min2(The(box)[4], image_shape[1] - y))
                          IN  Append(f[n - 1], [x |-> x, y |-> y, w |-> w, h |-> h])
    IN  f[Len(detections)]

\* Bounds of the lama-cleaner specification.
MaxLamaTimelines == 2
MaxFrames == 8

\* frames per second of the videos
FrameRates == {1, 2}

LIdle == lTimelines = <<>> /\ lFrame = NoValue

\* one more timeline of the builder's output, sorted by confidence
LAdd ==
    /\ lFrame = NoValue
    /\ Len(lTimelines) < MaxLamaTimelines
    /\ \E t \in TimelinePool :
          /\ \A i \in 1 .. Len(lTimelines) : lTimelines[i].text # t.text
          /\ lTimelines # <<>> => lTimelines[Len(lTimelines)].confidence >= t.confidence
          /\ lTimelines' = Append(lTimelines, t)
    /\ UNCHANGED <<lFrame, lOthers>>

\* one pass of the frame loop of process_video_frames: frame_time, the
\* watermarks for it and their mask; times are in half seconds
LFrame ==
    /\ lTimelines # <<>>
    /\ \E fps \in FrameRates : \E size \in VideoSizes :
          LET frame_num == IF lFrame = NoValue THEN 0 ELSE The(lFrame).frame_num + 1
              frame_time == (2 * frame_num) \div fps
              frame_watermarks == GetWatermarksForTime(lTimelines, frame_time)
          IN  /\ lFrame # NoValue => (fps = The(lFrame).fps /\ size = The(lFrame).size)
              /\ frame_num < MaxFrames
              /\ lFrame' = Some([frame_num |-> frame_num, fps |-> fps, size |-> size,
                                 frame_time |-> frame_time,
                                 frame_watermarks |-> frame_watermarks,
                                 mask |-> IF frame_watermarks # <<>>
                                          THEN Some(CreateMaskFromDetections(
                                                        <<size[2], size[1]>>, frame_watermarks))
                                          ELSE NoValue])
    /\ UNCHANGED <<lTimelines, lOthers>>

\* ------------------------------------------------------- specifications
AllIdle == VcIdle /\ MIdle /\ TIdle /\ SIdle /\ AIdle /\ PIdle /\ WIdle /\ DIdle /\ LIdle

InitVc == AllIdle
NextVc == VcCall \/ VcReturn
SpecVc == InitVc /\ [][NextVc]_vars

InitMerge == AllIdle
NextMerge == MAdd \/ MMerge \/ MMergeAgain \/ MMergeCluster
SpecMerge == InitMerge /\ [][NextMerge]_vars

InitGroup == AllIdle
NextGroup == TAdd \/ TBuild
SpecGroup == InitGroup /\ [][NextGroup]_vars

InitCap == AllIdle
NextCap == CapAdd \/ TBuild
SpecCap == InitCap /\ [][NextCap]_vars

InitMany == AllIdle
NextMany == ManyAdd \/ TBuild
SpecMany == InitMany /\ [][NextMany]_vars

InitSelect == AllIdle
NextSelect == SAdd \/ SRemove
SpecSelect == InitSelect /\ [][NextSelect]_vars

InitAuto == AllIdle
NextAuto == AStart \/ ASample \/ AFinish
SpecAuto == InitAuto /\ [][NextAuto]_vars

InitTrack == AllIdle
NextTrack == ATrackStart \/ ATrackSample \/ AFinish
SpecTrack == InitTrack /\ [][NextTrack]_vars

InitPropose == AllIdle
NextPropose ==
    \/ PDetectLogosInCorners
    \/ PDetectTextWatermarksFullFrame
    \/ PDetectMovingWatermarks
SpecPropose == InitPropose /\ [][NextPropose]_vars

InitMove == AllIdle
NextMove == DDetect \/ DCreateCommand \/ DFallback
SpecMove == InitMove /\ [][NextMove]_vars

InitLama == AllIdle
NextLama == LAdd \/ LFrame
SpecLama == InitLama /\ [][NextLama]_vars

InitWorker == AllIdle
NextWorker == WRemoveLogo
SpecWorker == InitWorker /\ [][NextWorker]_vars

\* --------------------------------------------------------------- claims

\* C1: every rectangle returned by _validate_coordinates satisfies
\* x >= 0, y >= 0, x + w < W, y + h < H, w >= 2 and h >= 2.
C1_ValidatedRegionInsideFrame ==
    vcOut # NoValue =>
        LET r == The(vcOut)
        IN  /\ r.x >= 0 /\ r.y >= 0
            /\ r.x + r.w < The(vcIn).W
            /\ r.y + r.h < The(vcIn).H
            /\ r.w >= 2 /\ r.h >= 2

\* the rectangles of a list of detections
Rects(detections) ==
    {<<d.x, d.y, d.width, d.height>> : d \in Range(detections)}

\* C3: merge_overlapping_detections is idempotent: merging the merged list
\* again with the same threshold yields the same rectangles and count.
C3_MergeIdempotent ==
    mTwice # NoValue =>
        /\ Len(The(mTwice)) = Len(The(mOnce))
        /\ Rects(The(mTwice)) = Rects(The(mOnce))

\* the padded bounding box of a cluster before any size clamp
PaddedBox(detections) ==
    LET min_x == SetMin({d.x : d \in Range(detections)})
        min_y == SetMin({d.y : d \in Range(detections)})
        span_x == SetMax({d.x + d.width : d \in Range(detections)}) - min_x
        span_y == SetMax({d.y + d.height : d \in Range(detections)}) - min_y
        padding_x == Min2(15, Max2(5, span_x \div 20))
        padding_y == Min2(10, Max2(3, span_y \div 20))
    IN  [x |-> Max2(0, min_x - padding_x), y |-> Max2(0, min_y - padding_y),
         width |-> span_x + 2 * padding_x, height |-> span_y + 2 * padding_y]

WidthClamped(detections) == PaddedBox(detections).width > 300
HeightClamped(detections) == PaddedBox(detections).height > 100

\* the centre of a box on an axis, in whole pixels as the merger computes it
CenterX(box) == box.x + box.width \div 2
CenterY(box) == box.y + box.height \div 2

BoxContains(outer, d) ==
    /\ outer.x <= d.x /\ d.x + d.width <= outer.x + outer.width
    /\ outer.y <= d.y /\ d.y + d.height <= outer.y + outer.height

C4_WitnessUnclamped ==
    /\ mCluster # NoValue
    /\ ~WidthClamped(mList) /\ ~HeightClamped(mList)
    /\ The(mCluster).merged_count >= 2

\* the builder's matching rules between two detections: the same stripped
\* text, or one joins the text group made of the other alone
Matches(a, b) ==
    \/ Strip(a.text) # <<>> /\ Strip(a.text) = Strip(b.text)
    \/ JoinsTextGroup(a, Strip(b.text), <<b>>)
    \/ JoinsTextGroup(b, Strip(a.text), <<a>>)

\* some returned timeline holds all the detections with these ids
InOneTimeline(ids) ==
    \E i \in 1 .. Len(The(tTimelines)) :
        ids \subseteq {d.id : d \in Range(The(tTimelines)[i].detections)}

\* C2: grouping is transitive: candidates A, B, C with A matching B and B
\* matching C end up in one returned timeline.
C2_GroupingTransitive ==
    tTimelines # NoValue =>
        \A a, b, c \in Range(The(tCandidates)) :
            (/\ Cardinality({a.id, b.id, c.id}) = 3
             /\ Matches(a, b) /\ Matches(b, c))
                => InOneTimeline({a.id, b.id, c.id})

\* the number of detections held by the returned timelines
TimelineDetectionCount(timelines) ==
    SeqSum([i \in 1 .. Len(timelines) |-> Len(timelines[i].detections)])

\* C5: when more than 20 detections survive the noise filter, exactly the
\* 20 with the highest watermark_score enter grouping; the returned
\* timelines never hold more than 20 detections.
C5_TopTwentyCandidates ==
    tTimelines # NoValue =>
        LET filtered == FilteredDetections(tDetections)
            entered == {d.id : d \in Range(The(tCandidates))}
        IN  /\ Len(filtered) > 20 =>
                  /\ Len(The(tCandidates)) = 20
                  /\ Cardinality(entered) = 20
                  /\ \A d \in Range(filtered) : \A e \in Range(filtered) :
                         (d.id \in entered /\ e.id \notin entered)
                             => d.watermark_score >= e.watermark_score
            /\ TimelineDetectionCount(The(tTimelines)) <= 20

\* more than 20 detections survived, and a low-scored early one was cut
C5_Witness ==
    /\ tTimelines # NoValue
    /\ Len(FilteredDetections(tDetections)) > 20
    /\ \E d \in Range(FilteredDetections(tDetections)) :
           d.id \notin {c.id : c \in Range(The(tCandidates))}
    /\ Len(FilteredDetections(tDetections)) < Len(tDetections)
    /\ TimelineDetectionCount(The(tTimelines)) = 20

\* C6: given 4 or more timelines the selector starts exactly one removal,
\* for a timeline that is greatest under (is_watermark, confidence, number
\* of positions), and the region it removes is that timeline's own, never a
\* combined region.
C6_FourOrMoreRemovesSingleBest ==
    (sResult # NoValue /\ Len(sTimelines) >= 4) =>
        LET result == The(sResult)
            chosen == sTimelines[result.target]
        IN  /\ \A i \in 1 .. Len(sTimelines) :
                   LET t == sTimelines[i]
                   IN  \/ (chosen.is_watermark /\ ~t.is_watermark)
                       \/ /\ chosen.is_watermark = t.is_watermark
                          /\ chosen.confidence > t.confidence
                       \/ /\ chosen.is_watermark = t.is_watermark
                          /\ chosen.confidence = t.confidence
                          /\ Len(chosen.positions) >= Len(t.positions)
            /\ result.worker # NoValue
            /\ LET worker == The(result.worker)
               IN  IF worker.op = "remove_logo"
                   THEN /\ worker.watermark.type = "static_watermark"
                        /\ worker.watermark.text = Prefix(chosen.text, 30)
                        /\ ~chosen.is_moving
                   ELSE /\ worker.op = "dynamic_removal"
                        /\ chosen.is_moving
                        /\ Len(worker.cmd.vf) = Len(chosen.detections)

\* four or more timelines were handed over and the best was not the first
C6_Witness ==
    /\ sResult # NoValue
    /\ Len(sTimelines) >= 4
    /\ The(sResult).target # 1
    /\ The(The(sResult).worker).op = "remove_logo"

\* what the builder must be given: the detections of the successful
\* samples, in order, each with the index and timestamp of its own sample
ExpectedDetections ==
    LET Upto[n \in 0 .. Len(aFrames)] ==
            IF n = 0 THEN <<>>
            ELSE IF aFrames[n] = NoValue THEN Upto[n - 1]
            ELSE Upto[n - 1] \o
                 [k \in 1 .. Len(The(aFrames[n])) |->
                     [The(aFrames[n])[k] EXCEPT !.frame_index = n - 1,
                                                !.timestamp = aTimestamps[n]]]
    IN  Upto[Len(aFrames)]

\* C8: a sample whose frame is None is skipped and the run goes on: when
\* the run ends every timestamp has been sampled, and the timeline builder
\* was given the detections of every successful sample, each tagged with the
\* frame_index and timestamp of its own sample.
C8_NoneFrameSkipped ==
    aPc = "done" =>
        /\ Len(aFrames) = Len(aTimestamps)
        /\ aAll = ExpectedDetections
        /\ aTimelines = Some(CreateWatermarkTimelines(ExpectedDetections))

\* a failed sample came before a successful one with detections
C8_Witness ==
    /\ aPc = "done"
    /\ \E i, j \in 1 .. Len(aFrames) :
          /\ i < j
          /\ aFrames[i] = NoValue
          /\ aFrames[j] # NoValue
          /\ aFrames[j] # Some(<<>>)
    /\ aWorker # NoValue

AllSamplesFailed ==
    /\ aPc = "done"
    /\ \A i \in 1 .. Len(aFrames) : aFrames[i] = NoValue

\* C9: when extraction fails for every sampled timestamp the run does not
\* end as a run whose frames were extracted and held no detection ends: with
\* an empty timeline list and the "no logos detected" error.
C9_NoUsableFramesDistinct ==
    AllSamplesFailed =>
        ~(aTimelines = Some(<<>>) /\ aError = Some(NoLogosMessage))

\* the sanity checks of the builder on one group of candidates
FailsSanityChecks(members) ==
    /\ Len(members) = 1
    /\ \/ members[1].confidence < 70
       \/ members[1].confidence < 80 /\ ~members[1].is_watermark

EveryCandidateFails ==
    LET groups == TextGroups(TopCandidates(aAll))
    IN  \A i \in 1 .. Len(groups) : FailsSanityChecks(groups[i].members)

\* C10: when every candidate timeline fails the sanity checks, or there is
\* none, the automatic path starts no worker and shows the "no logos
\* detected" error.
C10_NoPlanNoWorker ==
    (aPc = "done" /\ EveryCandidateFails) =>
        /\ aWorker = NoValue
        /\ aError = Some(NoLogosMessage)

\* frames were extracted and a candidate was found, but it failed the checks
C10_Witness ==
    /\ aPc = "done"
    /\ EveryCandidateFails
    /\ aAll # <<>>
    /\ aWorker = NoValue

\* C7: every detection an entry point of the Region Proposer returns for a
\* frame of height H and width W has 0 <= x, 0 <= y, x + width <= W and
\* y + height <= H.
C7_ProposalsInsideFrame ==
    pReturned # NoValue =>
        \A i \in 1 .. Len(The(pReturned)) :
            LET d == The(pReturned)[i]
            IN  /\ 0 <= d.x
                /\ 0 <= d.y
                /\ d.x + d.width <= The(pFrame)[2]
                /\ d.y + d.height <= The(pFrame)[1]

\* a detection of a recursive sub-region call reaches the right and bottom
\* sides of a frame too large to be scanned in one piece
C7_Witness ==
    /\ pReturned # NoValue
    /\ pEntry = "detect_logos_in_corners"
    /\ The(pFrame)[2] > 800
    /\ \E i \in 1 .. Len(The(pReturned)) :
          LET d == The(pReturned)[i]
          IN  /\ d.type = "ocr_tesseract"
              /\ d.x + d.width = The(pFrame)[2]
              /\ d.y + d.height = The(pFrame)[1]

Perms(n) ==
    {p \in [1 .. n -> 1 .. n] : \A i, j \in 1 .. n : p[i] = p[j] => i = j}

\* C11: the timeline the selector removes does not depend on the order of
\* the list: for every permutation of the timelines it was given,
\* _remove_timeline_watermarks selects the same timeline.
C11_SelectionOrderIndependent ==
    sResult # NoValue =>
        \A p \in Perms(Len(sTimelines)) :
            LET permuted == [i \in 1 .. Len(sTimelines) |-> sTimelines[p[i]]]
                again == RemoveTimelineWatermarks(permuted, <<1920, 1080>>, <<640, 480>>)
            IN  permuted[again.target].text = sTimelines[The(sResult).target].text

ReturnedTimelines == IF aTimelines = NoValue THEN <<>> ELSE The(aTimelines)

\* the variance of the values is below the limit
VarianceBelow(values, limit) ==
    LET n == Len(values)
        sum == SeqSum(values)
        sum_sq == SeqSum([i \in 1 .. n |-> values[i] * values[i]])
    IN  n * sum_sq - sum * sum < limit * n * n

MemberXs(t) == [i \in 1 .. Len(t.detections) |-> t.detections[i].x]
MemberYs(t) == [i \in 1 .. Len(t.detections) |-> t.detections[i].y]

\* C12: a returned timeline whose members' x coordinates and y coordinates
\* both have variance below 100 has type 'static' and is not moving,
\* whatever the number of its members.
C12_LowVarianceIsStatic ==
    \A i \in 1 .. Len(ReturnedTimelines) :
        LET t == ReturnedTimelines[i]
        IN  (VarianceBelow(MemberXs(t), 100) /\ VarianceBelow(MemberYs(t), 100)) =>
                (t.type = "static" /\ ~t.is_moving)

\* several members that did move, by less than the limit
C12_Witness ==
    \E i \in 1 .. Len(ReturnedTimelines) :
        LET t == ReturnedTimelines[i]
        IN  /\ Len(t.detections) >= 3
            /\ ~VarianceBelow(MemberXs(t), 1)
            /\ VarianceBelow(MemberXs(t), 100)
            /\ VarianceBelow(MemberYs(t), 100)
            /\ t.type = "static"

\* C13: a returned timeline with exactly one position is static and not
\* moving, and is_moving holds exactly for the types horizontal, vertical
\* and complex.
C13_SinglePositionNotMoving ==
    \A i \in 1 .. Len(ReturnedTimelines) :
        LET t == ReturnedTimelines[i]
        IN  /\ Len(t.positions) = 1 => (~t.is_moving /\ t.type = "static")
            /\ t.is_moving <=> t.type \in {"horizontal", "vertical", "complex"}
            /\ t.type \in {"static", "horizontal", "vertical", "complex"}

\* the text was found in one sample only
C13_Witness ==
    /\ Len(aFrames) = 5
    /\ \E i \in 1 .. Len(ReturnedTimelines) :
          /\ Len(ReturnedTimelines[i].positions) = 1
          /\ ~ReturnedTimelines[i].is_moving

\* each of the five samples holds one detection, sample i at (xs[i], 50)
SamplesAt(xs) ==
    /\ aPc = "done"
    /\ Len(aFrames) = 5
    /\ \A i \in 1 .. 5 :
          /\ aFrames[i] # NoValue
          /\ Len(The(aFrames[i])) = 1
          /\ The(aFrames[i])[1].x = xs[i]
          /\ The(aFrames[i])[1].y = 50
          /\ The(aFrames[i])[1].width = 150
          /\ The(aFrames[i])[1].height = 30
          /\ The(aFrames[i])[1].confidence >= 50

C15_LinearMoveIsHorizontal ==
    SamplesAt(<<50, 150, 250, 350, 450>>) =>
        /\ Len(ReturnedTimelines) = 1
        /\ ReturnedTimelines[1].type = "horizontal"
        /\ ReturnedTimelines[1].is_moving
        /\ ReturnedTimelines[1].movement_analysis.x_range = 400

C15_Witness ==
    /\ SamplesAt(<<50, 150, 250, 350, 450>>)
    /\ \A i \in 1 .. 4 : aTimestamps[i + 1] - aTimestamps[i] = SampleInterval
    /\ Len(ReturnedTimelines[1].detections) = 5

HighConfidenceWatermark(t) == t.is_watermark /\ t.confidence >= 80

\* the region covers the position
RegionCovers(r, pos) ==
    /\ r.x <= pos.x /\ r.y <= pos.y
    /\ pos.x + pos.width <= r.x + r.width
    /\ pos.y + pos.height <= r.y + r.height

\* C17: given 2 or 3 high-confidence watermark timelines the selector hands
\* over one combined region, removed in a single pass, that contains the
\* regions of all of them.
C17_FewTimelinesCombined ==
    (/\ sResult # NoValue
     /\ Len(sTimelines) \in {2, 3}
     /\ \A i \in 1 .. Len(sTimelines) : HighConfidenceWatermark(sTimelines[i])) =>
        /\ The(sResult).worker # NoValue
        /\ The(The(sResult).worker).op = "remove_logo"
        /\ \A i \in 1 .. Len(sTimelines) :
               \A k \in 1 .. Len(sTimelines[i].positions) :
                   RegionCovers(The(The(sResult).worker).watermark,
                                sTimelines[i].positions[k])

\* the segments of a plan for a moving timeline
PlanSegments == The(dPlan).cmd.vf

MovingPlan == dPlan # NoValue /\ The(dPlan).timeline.type # "static"

\* the times that matter: every segment boundary and the half second on
\* either side of it
PlanTimes ==
    UNION { {f.start_time - 1, f.start_time, f.start_time + 1,
             f.end_time - 1, f.end_time, f.end_time + 1} :
            f \in Range(PlanSegments) }

\* C18: in the dynamic plan for a moving timeline the segments are half-open
\* and contiguous: each ends where the next starts, none ends before it
\* starts, and at any time at most one segment's filter is enabled.
C18_SegmentsHalfOpenContiguous ==
    MovingPlan =>
        /\ \A i \in 1 .. Len(PlanSegments) - 1 :
               PlanSegments[i].end_time = PlanSegments[i + 1].start_time
        /\ \A i \in 1 .. Len(PlanSegments) :
               PlanSegments[i].start_time <= PlanSegments[i].end_time
        /\ \A t \in PlanTimes :
               Cardinality({i \in 1 .. Len(PlanSegments) :
                               FilterEnabled(PlanSegments[i], t)}) <= 1

\* the validated region of the plan's i-th detection, with the padding of
\* 10 the moving branch adds
ValidatedRegion(i) ==
    LET detection == The(dPlan).timeline.detections[i]
    IN  DynamicValidate(Max2(0, detection.x - 10), Max2(0, detection.y - 10),
                        detection.width + 20, detection.height + 20,
                        The(dPlan).dims[1], The(dPlan).dims[2])

\* C19: for every method (blur, delogo, drawbox) and every detection of a
\* moving timeline, the filter of that detection's segment carries the
\* detection's validated region, so it does not act on the whole frame.
C19_SegmentFilterCarriesRegion ==
    MovingPlan =>
        /\ Len(PlanSegments) = Len(The(dPlan).timeline.detections)
        /\ \A i \in 1 .. Len(PlanSegments) :
               PlanSegments[i].region = Some(ValidatedRegion(i))

\* the positions the fallback was given, the frame size it validated with
\* and the expanded region it handed to the worker
FallbackPositions == The(dExpanded).timeline.positions
FallbackWidth == The(dExpanded).video_dims[1]
FallbackHeight == The(dExpanded).video_dims[2]
ExpandedRegion == The(The(dExpanded).worker).watermark

\* every position lies at least margin pixels before the right and the
\* bottom edge of the frame
PositionsInside(margin) ==
    \A k \in 1 .. Len(FallbackPositions) :
        /\ FallbackPositions[k].x >= 0 /\ FallbackPositions[k].y >= 0
        /\ FallbackPositions[k].x + FallbackPositions[k].width <= FallbackWidth - margin
        /\ FallbackPositions[k].y + FallbackPositions[k].height <= FallbackHeight - margin

EnvelopeCovered ==
    \A k \in 1 .. Len(FallbackPositions) :
        RegionCovers(ExpandedRegion, FallbackPositions[k])

\* C20 as stated: for a moving timeline whose position rectangles all lie
\* inside the W x H frame, the validated expanded region of the fallback
\* contains every position's rectangle.
C20_EnvelopeCoveredInFrame ==
    (dExpanded # NoValue /\ PositionsInside(0)) => EnvelopeCovered

\* C20 amended: for a moving timeline whose position rectangles all end
\* before the last column and the last row of the W x H frame the probe
\* reports (x + width < W, y + height < H), the validated expanded region
\* of the fallback contains every position's rectangle.
C20_EnvelopeCoveredInsideMargin ==
    (dExpanded # NoValue /\ PositionsInside(1)) => EnvelopeCovered

\* the fallback acted on positions that end one pixel before the right
\* edge, where validation cuts the padded width
C20_Witness ==
    /\ dExpanded # NoValue
    /\ PositionsInside(1)
    /\ \E k \in 1 .. Len(FallbackPositions) :
           FallbackPositions[k].x + FallbackPositions[k].width = FallbackWidth - 1
    /\ ExpandedRegion.width <
           ExpandedArea(FallbackPositions).w

\* C21: every merged detection returned by merge_overlapping_detections,
\* from a cluster of several members or from a lone detection, has
\* width <= 300 and height <= 100.
C21_MergedWithinMaxima ==
    mOnce # NoValue =>
        \A k \in 1 .. Len(The(mOnce)) :
            The(mOnce)[k].width <= 300 /\ The(mOnce)[k].height <= 100

\* the text groups the builder formed from its candidates
BuiltGroups == TextGroups(The(tCandidates))

\* a returned timeline holds exactly the members of the group
GroupReturned(group) ==
    \E i \in 1 .. Len(The(tTimelines)) :
        The(tTimelines)[i].detections = group.members

DoubledByClaim(d) ==
    \/ d.is_watermark
    \/ d.confidence > 80
    \/ (Len(Strip(d.text)) >= 3 /\ d.confidence > 60)

\* the text carries one of the indicators 'www', '.com', the copyright and
\* trademark signs, 'watermark', 'moving', 'mark', 'water', 'mov', 'ving',
\* 'ater', 'emark'
CarriesIndicator(d) ==
    \E p \in { <<"w", "w", "w">>, <<".", "c", "o", "m">>, <<"(c)">>, <<"(r)">>,
               <<"(tm)">>, <<"w", "a", "t", "e", "r", "m", "a", "r", "k">>,
               <<"m", "o", "v", "i", "n", "g">>, <<"m", "a", "r", "k">>,
               <<"w", "a", "t", "e", "r">>, <<"m", "o", "v">>,
               <<"v", "i", "n", "g">>, <<"a", "t", "e", "r">>,
               <<"e", "m", "a", "r", "k">> } :
        Contains(p, ToLower(Strip(d.text)))

\* C23 as stated: for every detection that survives the noise filter the
\* watermark_score is confidence x 2.0 if and only if is_watermark is true,
\* or confidence > 0.8, or text length >= 3 and confidence > 0.6; otherwise
\* it is confidence x 1.0.
C23_ScoreDoubledByFlagOrConfidence ==
    tTimelines # NoValue =>
        \A d \in Range(The(tCandidates)) :
            /\ d.watermark_score \in {d.confidence, 2 * d.confidence}
            /\ d.watermark_score = 2 * d.confidence <=> DoubledByClaim(d)

\* C23 amended: the score is confidence x 2.0 if and only if the text
\* carries one of the indicator texts, or one of the claim's three
\* conditions holds; otherwise it is confidence x 1.0.
C23_ScoreDoubledByIndicatorToo ==
    tTimelines # NoValue =>
        \A d \in Range(The(tCandidates)) :
            /\ d.watermark_score \in {d.confidence, 2 * d.confidence}
            /\ d.watermark_score = 2 * d.confidence <=>
                   (CarriesIndicator(d) \/ DoubledByClaim(d))

\* a candidate is scored double on its indicator text alone, and another
\* keeps the plain score
C23_Witness ==
    /\ tTimelines # NoValue
    /\ \E d \in Range(The(tCandidates)) :
           /\ CarriesIndicator(d) /\ ~DoubledByClaim(d)
           /\ d.watermark_score = 2 * d.confidence
    /\ \E d \in Range(The(tCandidates)) : d.watermark_score = d.confidence

\* the text groups before and after the grouping loop handles its n-th
\* candidate
GroupsBefore(n) == GroupLoop(SubSeq(The(tCandidates), 1, n - 1)).text_groups
GroupsAfter(n) == GroupLoop(SubSeq(The(tCandidates), 1, n)).text_groups

\* the n-th candidate was appended to the group that was already the i-th
JoinedExisting(n, i) ==
    /\ i <= Len(GroupsBefore(n))
    /\ Len(GroupsAfter(n)[i].members) = Len(GroupsBefore(n)[i].members) + 1

\* some member lies within 5 s of the detection, and the detection within
\* 100 px and 50 px of the average position of those members
NearRecentMembers(d, members) ==
    LET recent == SelectSeq(members, LAMBDA m : Abs(m.timestamp - d.timestamp) < 10)
        n == Len(recent)
    IN  /\ n > 0
        /\ Abs(n * d.x - SeqSum([k \in 1 .. n |-> recent[k].x])) < 100 * n
        /\ Abs(n * d.y - SeqSum([k \in 1 .. n |-> recent[k].y])) < 50 * n

\* C24: a detection whose text has at most 2 characters is appended to an
\* already existing group only if that group has a member sampled within
\* 5 s of it and it lies within 100 px horizontally and 50 px vertically of
\* the average position of those recent members.
C24_ShortFragmentNeedsProximity ==
    tTimelines # NoValue =>
        \A n \in 1 .. Len(The(tCandidates)) :
            Len(Strip(The(tCandidates)[n].text)) <= 2 =>
                \A i \in 1 .. Len(GroupsBefore(n)) :
                    JoinedExisting(n, i) =>
                        NearRecentMembers(The(tCandidates)[n], GroupsBefore(n)[i].members)

\* the position groups at the end of the grouping loop
BuiltPositionGroups == GroupLoop(The(tCandidates)).position_groups

\* C25: a detection with no text and confidence >= 0.5 reaches the grouping
\* stage and, unable to join a text group, is grouped spatio-temporally: it
\* joins a position group with a member within 3 s whose recent average
\* position is within 150 x 80 px, otherwise it starts a new position group.
C25_TextlessGroupedByPosition ==
    tTimelines # NoValue =>
        \A k \in 1 .. Len(tDetections) :
            (Strip(tDetections[k].text) = <<>> /\ tDetections[k].confidence >= 50) =>
                /\ \E c \in Range(The(tCandidates)) : c.id = tDetections[k].id
                /\ \E g \in 1 .. Len(BuiltPositionGroups) :
                       \E c \in Range(BuiltPositionGroups[g]) : c.id = tDetections[k].id

\* the timeline a dynamic plan was made for, and its variances as the
\* fractions num / den
PlanTimeline == The(dPlan).timeline
PlanXVariance == PlanTimeline.movement_analysis.x_variance
PlanYVariance == PlanTimeline.movement_analysis.y_variance

\* the variance a exceeds twice the variance b
ExceedsTwice(a, b) == a.num * b.den > 2 * b.num * a.den

PlanMoves ==
    /\ dPlan # NoValue
    /\ Len(PlanTimeline.detections) >= 2
    /\ \/ PlanXVariance.num > 100 * PlanXVariance.den
       \/ PlanYVariance.num > 100 * PlanYVariance.den

\* C26: for a timeline of at least two members whose x_variance or
\* y_variance exceeds 100, the type is 'horizontal' only if x_variance >
\* 2 * y_variance, 'vertical' only if y_variance > 2 * x_variance, and
\* 'complex' whenever neither variance exceeds twice the other; exactly one
\* of the three is chosen.
C26_DirectionNeedsTwiceVariance ==
    PlanMoves =>
        /\ PlanTimeline.type \in {"horizontal", "vertical", "complex"}
        /\ PlanTimeline.type = "horizontal" => ExceedsTwice(PlanXVariance, PlanYVariance)
        /\ PlanTimeline.type = "vertical" => ExceedsTwice(PlanYVariance, PlanXVariance)
        /\ (~ExceedsTwice(PlanXVariance, PlanYVariance)
               /\ ~ExceedsTwice(PlanYVariance, PlanXVariance))
              => PlanTimeline.type = "complex"
        /\ ~(ExceedsTwice(PlanXVariance, PlanYVariance)
               /\ ExceedsTwice(PlanYVariance, PlanXVariance))

\* a timeline that moves on both axes, neither variance twice the other,
\* was classified complex
C26_Witness ==
    /\ PlanMoves
    /\ PlanXVariance.num > PlanYVariance.num /\ PlanYVariance.num > 0
    /\ ~ExceedsTwice(PlanXVariance, PlanYVariance)
    /\ PlanTimeline.type = "complex"

\* C27: the ffmpeg command _remove_moving_timeline_watermark hands to the
\* dynamic_removal worker names the output path (the input path with the
\* suffix _moving_removed.mp4) as its output file.
C27_DynamicCommandNamesOutput ==
    (/\ sResult # NoValue
     /\ The(sResult).worker # NoValue
     /\ The(The(sResult).worker).op = "dynamic_removal") =>
        The(The(sResult).worker).cmd.output =
            Some(The(The(sResult).worker).output_suffix)

\* the detection of the timeline sampled nearest to the time t
NearestSampled(timeline, d, t) ==
    /\ d \in Range(timeline.detections)
    /\ \A e \in Range(timeline.detections) :
           Abs(d.timestamp - t) <= Abs(e.timestamp - t)

\* the mask is non-zero over the whole rectangle of the detection
MaskCovers(mask, d) ==
    \E k \in 1 .. Len(mask) :
        /\ mask[k].x <= d.x /\ mask[k].y <= d.y
        /\ d.x + d.width <= mask[k].x + mask[k].w
        /\ d.y + d.height <= mask[k].y + mask[k].h

\* C28: given timelines of _create_watermark_timelines, at every frame time
\* the detection selected for a timeline is the one sampled nearest to the
\* frame time, and the frame's mask is non-zero over that detection's
\* rectangle.
C28_NearestDetectionMasked ==
    lFrame # NoValue =>
        LET frame == The(lFrame)
        IN  /\ Len(frame.frame_watermarks) = Len(lTimelines)
            /\ frame.mask # NoValue
            /\ \A i \in 1 .. Len(frame.frame_watermarks) :
                   /\ NearestSampled(lTimelines[i], frame.frame_watermarks[i],
                                     frame.frame_time)
                   /\ MaskCovers(The(frame.mask), frame.frame_watermarks[i])

\* the returned timelines that hold the detection with this id
TimelinesHolding(id) ==
    {i \in 1 .. Len(The(tTimelines)) :
        \E k \in 1 .. Len(The(tTimelines)[i].detections) :
            The(tTimelines)[i].detections[k].id = id}

\* C29: _create_watermark_timelines returns at most 20 timelines and every
\* input detection is in the detections of at most one of them, so the
\* filter of _remove_logo_automatic for more than 50 timelines is not
\* applied.
C29_AtMostTwentyDisjointTimelines ==
    tTimelines # NoValue =>
        /\ Len(The(tTimelines)) <= 20
        /\ \A k \in 1 .. Len(tDetections) :
               Cardinality(TimelinesHolding(tDetections[k].id)) <= 1
        /\ ~(Len(The(tTimelines)) > 50)
        /\ FilterExcessive(The(tTimelines)) = The(tTimelines)

\* more than 20 detections with texts of their own survived the filter and
\* 20 timelines were returned
C29_Witness ==
    /\ tTimelines # NoValue
    /\ Len(FilteredDetections(tDetections)) > 20
    /\ Len(The(tTimelines)) = 20

\* the frame's detections as the merger sorts them, and the clusters
\* (nearby_detections, as indices into that list) behind its outputs
SortedInput == SortDescBy(mList, ConfidenceOf)
Clusters == MergeLoop(mList, OverlapThresholdPct).clusters

\* merged_count of an output, 1 for an unmerged detection
MemberCount(output) == IF output.merged_count > 0 THEN output.merged_count ELSE 1

\* C30: merge_overlapping_detections partitions its input: every input
\* detection is the seed or an absorbed member of exactly one output, there
\* are at most as many outputs as inputs, the member counts of the outputs
\* sum to the input length, and each cluster's seed is its most confident
\* member.
C30_MergePartitionsInput ==
    mOnce # NoValue =>
        /\ Len(Clusters) = Len(The(mOnce))
        /\ \A j \in 1 .. Len(mList) :
               Cardinality({k \in 1 .. Len(Clusters) :
                               \E m \in 1 .. Len(Clusters[k]) : Clusters[k][m] = j}) = 1
        /\ \A k \in 1 .. Len(Clusters) :
               /\ Cardinality(Range(Clusters[k])) = Len(Clusters[k])
               /\ MemberCount(The(mOnce)[k]) = Len(Clusters[k])
               /\ \A m \in 1 .. Len(Clusters[k]) :
                      SortedInput[Clusters[k][1]].confidence
                          >= SortedInput[Clusters[k][m]].confidence
               /\ The(mOnce)[k].confidence = SortedInput[Clusters[k][1]].confidence
        /\ Len(The(mOnce)) <= Len(mList)
        /\ SeqSum([k \in 1 .. Len(The(mOnce)) |-> MemberCount(The(mOnce)[k])]) = Len(mList)

\* three detections came back as a merged pair and a lone detection
C30_Witness ==
    /\ mOnce # NoValue
    /\ Len(mList) = 3
    /\ Len(The(mOnce)) = 2
    /\ \E k \in 1 .. 2 : MemberCount(The(mOnce)[k]) = 2
    /\ \E k \in 1 .. 2 : MemberCount(The(mOnce)[k]) = 1

====
